---------------------------- MODULE Spec2Model ----------------------------
(***************************************************************************)
(* State-machine model of the SRTLA receiver (srtla_rec): the connection   *)
(* registry, the SRTLA protocol handler, the SRT egress handler and the    *)
(* NAK de-duplicator.  Datagrams, group ids and addresses are byte         *)
(* sequences as on the wire; 64-bit hashes are sequences of 8 bytes,       *)
(* least significant first.                                                *)
(***************************************************************************)
EXTENDS Integers, Sequences, FiniteSets, TLC

VARIABLES
    groups,     \* ConnectionRegistry::groups_  (sequence of group records)
    now_ms,     \* CLOCK_MONOTONIC_COARSE, in milliseconds
    ts,         \* the reactor's `ts`: seconds read after epoll_wait
    last_run,   \* cleanup_inactive's static last_run
    rx,         \* the event the last handler consumed, and the error it logged
    tx          \* the send calls the last handler made, in call order

vars == <<groups, now_ms, ts, last_run, rx, tx>>

---------------------------------------------------------------------------
(* Program constants: receiver_config.h *)

MAX_CONNS_PER_GROUP == 16
MAX_GROUPS == 200
CLEANUP_PERIOD == 3
GROUP_TIMEOUT == 4
CONN_TIMEOUT == 4
KEEPALIVE_PERIOD == 1
RECOVERY_CHANCE_PERIOD == 5
CONN_QUALITY_EVAL_PERIOD == 5
ACK_THROTTLE_INTERVAL == 100
CONNECTION_GRACE_PERIOD == 10
RECV_ACK_INT == 10
MIN_ACCEPTABLE_TOTAL_BANDWIDTH_KBPS == 1000
WEIGHT_FULL == 100
WEIGHT_EXCELLENT == 85
WEIGHT_DEGRADED == 70
WEIGHT_FAIR == 55
WEIGHT_POOR == 40
WEIGHT_CRITICAL == 10
RTT_THRESHOLD_CRITICAL == 500
RTT_THRESHOLD_HIGH == 200
RTT_THRESHOLD_MODERATE == 100
RTT_VARIANCE_THRESHOLD == 50
KEEPALIVE_STALENESS_THRESHOLD == 2
RTT_HISTORY_SIZE == 5

(* Program constants: common.h (wire format) *)

MTU == 1500
SRT_MIN_LEN == 16
SRTLA_ID_LEN == 32
SRT_TYPE_ACK == 32770           \* 0x8002
SRT_TYPE_NAK == 32771           \* 0x8003
SRTLA_TYPE_KEEPALIVE == 36864   \* 0x9000
SRTLA_TYPE_ACK == 37120         \* 0x9100
SRTLA_TYPE_REG1 == 37376        \* 0x9200
SRTLA_TYPE_REG2 == 37377        \* 0x9201
SRTLA_TYPE_REG3 == 37378        \* 0x9202
SRTLA_TYPE_REG_ERR == 37392     \* 0x9210
SRTLA_TYPE_REG_NGP == 37393     \* 0x9211
SRTLA_TYPE_REG1_LEN == 2 + (SRTLA_ID_LEN \div 2)
SRTLA_TYPE_REG2_LEN == 2 + SRTLA_ID_LEN
SRTLA_TYPE_REG3_LEN == 2
SRTLA_KEEPALIVE_EXT_LEN == 42
SRTLA_KEEPALIVE_MAGIC == 49183  \* 0xc01f
SRTLA_KEEPALIVE_EXT_VERSION == 1

(* nak_dedup.h *)

SUPPRESS_MS == 100
MAX_REPEATS == 1
NAK_HASH_PREFIX == 128          \* is_duplicate_nak's prefix_bytes argument
FNV_OFFSET_BASIS == <<131, 3, 157, 115, 176, 15, 101, 20>>   \* 1469598103934665603
FNV_PRIME == <<179, 1, 0, 0, 0, 1, 0, 0>>                    \* 1099511628211

(* wait_group_by_id's max_ms *)
WAIT_GROUP_MS == 200

AF_INET6 == 10

---------------------------------------------------------------------------
(* Byte helpers *)

Min(S) == CHOOSE x \in S : \A y \in S : x <= y

Zeros(n) == [i \in 1..n |-> 0]

\* htobe16 / htobe32 as the bytes they leave in memory
BE16(v) == <<v \div 256, v % 256>>

BE32(v) == <<v \div 16777216, (v \div 65536) % 256, (v \div 256) % 256, v % 256>>

\* be32toh of four bytes whose top bit is clear
FromBE32(b) == ((((((b[1] * 256) + b[2]) * 256) + b[3]) * 256) + b[4])

RECURSIVE XorBits(_, _, _)
XorBits(a, b, n) ==
    IF n = 0 THEN 0
    ELSE (((a % 2) + (b % 2)) % 2) + (2 * XorBits(a \div 2, b \div 2, n - 1))

XorByte(a, b) == XorBits(a, b, 8)

\* 64-bit product modulo 2^64 of two 8-byte little-endian numbers
RECURSIVE ColumnSum(_, _, _, _)
ColumnSum(a, b, k, i) ==
    IF i > k THEN 0 ELSE (a[i] * b[k - i + 1]) + ColumnSum(a, b, k, i + 1)

RECURSIVE MulLimbs(_, _, _, _)
MulLimbs(a, b, k, carry) ==
    IF k > 8 THEN <<>>
    ELSE LET s == ColumnSum(a, b, k, 1) + carry
         IN  <<s % 256>> \o MulLimbs(a, b, k + 1, s \div 256)

Mul64(a, b) == MulLimbs(a, b, 1, 0)

U64Zero == Zeros(8)

---------------------------------------------------------------------------
(* Packet codec: common.c *)

get_srt_type(pkt, n) == IF n < 2 THEN 0 ELSE (pkt[1] * 256) + pkt[2]

\* get_srt_sn that clears the top bit instead of testing it
get_srt_sn_any(pkt, n) ==
    IF n < 4 THEN -1
    ELSE FromBE32([SubSeq(pkt, 1, 4) EXCEPT ![1] = @ % 128])

get_srt_sn(pkt, n) ==
    IF n < 4 THEN -1
    ELSE IF pkt[1] < 128 THEN FromBE32(SubSeq(pkt, 1, 4)) ELSE -1

is_srt_ack(pkt, n) == get_srt_type(pkt, n) = SRT_TYPE_ACK

is_srtla_keepalive(pkt, n) == get_srt_type(pkt, n) = SRTLA_TYPE_KEEPALIVE

is_srtla_reg1(pkt, len) ==
    IF len # SRTLA_TYPE_REG1_LEN THEN FALSE
    ELSE get_srt_type(pkt, len) = SRTLA_TYPE_REG1

is_srtla_reg2(pkt, len) ==
    IF len # SRTLA_TYPE_REG2_LEN THEN FALSE
    ELSE get_srt_type(pkt, len) = SRTLA_TYPE_REG2

is_srt_nak_packet(pkt, length) ==
    IF length < SRT_MIN_LEN THEN FALSE
    ELSE get_srt_type(pkt, length) = SRT_TYPE_NAK

---------------------------------------------------------------------------
(* NAK de-duplicator: nak_dedup.cpp *)

\* one round of the loop: hash ^= byte; hash *= FNV_PRIME
FnvStep(hash, byte) == Mul64([hash EXCEPT ![1] = XorByte(hash[1], byte)], FNV_PRIME)

\* the loop over payload[i .. payload_length], one half after the other
RECURSIVE FnvFold(_, _, _, _)
FnvFold(hash, payload, i, payload_length) ==
    IF i > payload_length THEN hash
    ELSE IF i = payload_length THEN FnvStep(hash, payload[i])
    ELSE LET mid  == (i + payload_length) \div 2
             left == FnvFold(hash, payload, i, mid)
         IN  \* Len(left) = 8 always: the test makes TLC compute left first
             IF Len(left) = 8 THEN FnvFold(left, payload, mid + 1, payload_length)
             ELSE left

hash_nak_payload(buffer, length, prefix_bytes) ==
    IF length <= 16 THEN U64Zero
    ELSE LET payload == SubSeq(buffer, 17, length)
             full    == length - 16
             payload_length ==
                 IF prefix_bytes >= 0 /\ prefix_bytes < full THEN prefix_bytes ELSE full
         IN  FnvFold(FNV_OFFSET_BASIS, payload, 1, payload_length)

\* should_accept_nak without the suppression window
should_accept_nak_no_window(cache, hash, current_time_ms) ==
    IF hash \notin DOMAIN cache
    THEN [accept |-> TRUE,
          cache  |-> [h \in DOMAIN cache \cup {hash} |->
                        IF h = hash
                        THEN [timestamp_ms |-> current_time_ms, repeat_count |-> 0]
                        ELSE cache[h]]]
    ELSE IF cache[hash].repeat_count >= MAX_REPEATS
    THEN [accept |-> FALSE, cache |-> cache]
    ELSE [accept |-> TRUE,
          cache  |-> [cache EXCEPT ![hash] =
                        [timestamp_ms |-> current_time_ms,
                         repeat_count |-> cache[hash].repeat_count + 1]]]

\* should_accept_nak that lets one repeat too many through
should_accept_nak_one_more(cache, hash, current_time_ms) ==
    IF hash \notin DOMAIN cache
    THEN [accept |-> TRUE,
          cache  |-> [h \in DOMAIN cache \cup {hash} |->
                        IF h = hash
                        THEN [timestamp_ms |-> current_time_ms, repeat_count |-> 0]
                        ELSE cache[h]]]
    ELSE IF current_time_ms < cache[hash].timestamp_ms
    THEN [accept |-> FALSE, cache |-> cache]
    ELSE IF current_time_ms - cache[hash].timestamp_ms < SUPPRESS_MS
    THEN [accept |-> FALSE, cache |-> cache]
    ELSE IF cache[hash].repeat_count > MAX_REPEATS
    THEN [accept |-> FALSE, cache |-> cache]
    ELSE [accept |-> TRUE,
          cache  |-> [cache EXCEPT ![hash] =
                        [timestamp_ms |-> current_time_ms,
                         repeat_count |-> cache[hash].repeat_count + 1]]]

\* should_accept_nak: the verdict and the cache it leaves
should_accept_nak(cache, hash, current_time_ms) ==
    IF hash \notin DOMAIN cache
    THEN [accept |-> TRUE,
          cache  |-> [h \in DOMAIN cache \cup {hash} |->
                        IF h = hash
                        THEN [timestamp_ms |-> current_time_ms, repeat_count |-> 0]
                        ELSE cache[h]]]
    ELSE IF current_time_ms < cache[hash].timestamp_ms
    THEN [accept |-> FALSE, cache |-> cache]
    ELSE IF current_time_ms - cache[hash].timestamp_ms < SUPPRESS_MS
    THEN [accept |-> FALSE, cache |-> cache]
    ELSE IF cache[hash].repeat_count >= MAX_REPEATS
    THEN [accept |-> FALSE, cache |-> cache]
    ELSE [accept |-> TRUE,
          cache  |-> [cache EXCEPT ![hash] =
                        [timestamp_ms |-> current_time_ms,
                         repeat_count |-> cache[hash].repeat_count + 1]]]

---------------------------------------------------------------------------
(* Addresses and registry lookups: network_utils.cpp, connection_registry.cpp *)

\* a zero-initialised sockaddr_storage
NullAddr == [family |-> 0, ip |-> Zeros(16), port |-> 0]

constant_time_compare(a, b, length) ==
    IF \A i \in 1..length : a[i] = b[i] THEN 0 ELSE -1

addresses_equal(a, b) ==
    IF a.family # b.family THEN FALSE
    ELSE IF a.family = AF_INET6
    THEN constant_time_compare(a.ip, b.ip, 16) = 0 /\ a.port = b.port
    ELSE constant_time_compare(a.ip, b.ip, 4) = 0 /\ a.port = b.port

\* conn_timed_out that fires one second early
conn_timed_out_early(conn, t) == (conn.last_rcvd + CONN_TIMEOUT) <= t

\* a time-out that leaves a silent connection one more cleanup period
conn_timed_out_late(conn, t) == (conn.last_rcvd + CONN_TIMEOUT + CLEANUP_PERIOD) < t

conn_timed_out(conn, t) == (conn.last_rcvd + CONN_TIMEOUT) < t

\* find_group_by_id that compares the client-chosen half of the id only
find_group_by_id_half(gs, id) ==
    LET hits == {i \in 1..Len(gs) :
                    constant_time_compare(gs[i].id, id, SRTLA_ID_LEN \div 2) = 0}
    IN  IF hits = {} THEN 0 ELSE Min(hits)

\* index of the first group whose id matches, 0 for nullptr
find_group_by_id(gs, id) ==
    LET hits == {i \in 1..Len(gs) : constant_time_compare(gs[i].id, id, SRTLA_ID_LEN) = 0}
    IN  IF hits = {} THEN 0 ELSE Min(hits)

\* index of the first connection of conns with that address, 0 if none
ConnIndex(conns, addr) ==
    LET hits == {i \in 1..Len(conns) : addresses_equal(conns[i].addr, addr)}
    IN  IF hits = {} THEN 0 ELSE Min(hits)

\* (out_group, out_conn) as indices, 0 for a reset pointer
find_by_address(gs, addr) ==
    LET hits == {i \in 1..Len(gs) :
                    \/ ConnIndex(gs[i].conns, addr) # 0
                    \/ addresses_equal(gs[i].last_addr, addr)}
    IN  IF hits = {} THEN [g |-> 0, c |-> 0]
        ELSE [g |-> Min(hits), c |-> ConnIndex(gs[Min(hits)].conns, addr)]

\* std::vector::erase of one element
RemoveAt(seq, i) == SubSeq(seq, 1, i - 1) \o SubSeq(seq, i + 1, Len(seq))

\* ConnectionRegistry::remove_group: erase every element equal to the pointer
remove_group(gs, g) == RemoveAt(gs, g)

---------------------------------------------------------------------------
(* Fractions.  The double values of the quality code are quotients of       *)
(* integers; they are kept as [num, den] in lowest terms, den > 0.          *)

RECURSIVE GCD(_, _)
GCD(a, b) == IF b = 0 THEN a ELSE GCD(b, a % b)

Abs(x) == IF x < 0 THEN -x ELSE x

Rat(n, d) ==
    IF n = 0 THEN [num |-> 0, den |-> 1]
    ELSE LET g == GCD(Abs(n), d) IN [num |-> n \div g, den |-> d \div g]

Zero == Rat(0, 1)
One == Rat(1, 1)

RLess(a, b) == a.num * b.den < b.num * a.den
RMax(a, b) == IF RLess(a, b) THEN b ELSE a
RMin(a, b) == IF RLess(b, a) THEN b ELSE a
RAdd(a, b) == Rat(a.num * b.den + b.num * a.den, a.den * b.den)
RMul(a, b) == Rat(a.num * b.num, a.den * b.den)
\* a / b for b > 0
RDiv(a, b) == Rat(a.num * b.den, a.den * b.num)
\* |a - b|
RDist(a, b) == Rat(Abs(a.num * b.den - b.num * a.den), a.den * b.den)

---------------------------------------------------------------------------

(* Program constants of type double: receiver_config.h *)

MIN_ACK_RATE == Rat(2, 10)
GOOD_CONNECTION_THRESHOLD == Rat(5, 10)
NAK_RATE_CRITICAL == Rat(20, 100)
NAK_RATE_HIGH == Rat(10, 100)
NAK_RATE_MODERATE == Rat(5, 100)
NAK_RATE_LOW == Rat(1, 100)
WINDOW_UTILIZATION_CONGESTED == Rat(95, 100)

---------------------------------------------------------------------------

(* Objects: connection.cpp, connection_group.cpp *)

NewConnection(addr, timestamp) ==
    [addr             |-> addr,
     last_rcvd        |-> timestamp,
     recv_idx         |-> 0,
     recv_log         |-> [i \in 1..RECV_ACK_INT |-> Zeros(4)],
     recovery_start   |-> 0,
     connection_start |-> timestamp,
     stats |-> [bytes_received        |-> 0,
                packets_received      |-> 0,
                packets_lost          |-> 0,
                last_eval_time        |-> 0,
                last_bytes_received   |-> 0,
                last_packets_received |-> 0,
                last_packets_lost     |-> 0,
                error_points          |-> 0,
                weight_percent        |-> WEIGHT_FULL,
                last_ack_sent_time    |-> 0,
                ack_throttle_factor   |-> One,
                nack_count            |-> 0,
                rtt_ms                |-> 0,
                rtt_history           |-> [i \in 1..RTT_HISTORY_SIZE |-> 0],
                rtt_history_idx       |-> 0,
                last_keepalive        |-> 0,
                window                |-> 0,
                in_flight             |-> 0,
                sender_nak_count      |-> 0,
                last_sender_nak_count |-> 0,
                sender_supports_extended_keepalives |-> FALSE]]

NewGroup(client_id, timestamp, random_bytes) ==
    [id                     |-> SubSeq(client_id, 1, SRTLA_ID_LEN \div 2) \o random_bytes,
     conns                  |-> <<>>,
     created_at             |-> timestamp,
     srt_sock               |-> -1,
     last_addr              |-> NullAddr,
     last_quality_eval      |-> 0,
     last_load_balance_eval |-> 0,
     load_balancing_enabled |-> TRUE,
     nak_cache              |-> <<>>]

---------------------------------------------------------------------------
(* Send calls.  sock is the descriptor written to; ret is TRUE when the    *)
(* call reported the full length.                                          *)

SRTLA_SOCK == 4
FIRST_SRT_FD == 5

SendTo(sock, addr, buf, ret) == [sock |-> sock, to |-> addr, buf |-> buf, ret |-> ret]

---------------------------------------------------------------------------
(* SRTLA protocol handler: srtla_handler.cpp *)

\* a two-byte reply, whose result the code ignores: [groups, tx, ret, waited]
reg_reject(gs, addr, type, waited) ==
    [groups |-> gs,
     tx     |-> <<SendTo(SRTLA_SOCK, addr, BE16(type), TRUE)>>,
     ret    |-> -1, waited |-> waited]

\* register_group without the test that the registry is full
register_group_no_limit(gs, addr, buffer, t, random_bytes, send_ok) ==
    IF find_by_address(gs, addr).g # 0
    THEN [groups |-> gs,
          tx     |-> <<SendTo(SRTLA_SOCK, addr, BE16(SRTLA_TYPE_REG_ERR), TRUE)>>,
          ret    |-> -1]
    ELSE LET group == [NewGroup(SubSeq(buffer, 3, Len(buffer)), t, random_bytes)
                          EXCEPT !.last_addr = addr]
             call  == SendTo(SRTLA_SOCK, addr, BE16(SRTLA_TYPE_REG2) \o group.id, send_ok)
         IN  [groups |-> IF send_ok THEN Append(gs, group) ELSE gs,
              tx     |-> <<call>>,
              ret    |-> IF send_ok THEN 0 ELSE -1]

\* register_group that stores the new group before it looks at the sender
register_group_add_first(gs, addr, buffer, t, random_bytes, send_ok) ==
    LET group == [NewGroup(SubSeq(buffer, 3, Len(buffer)), t, random_bytes)
                     EXCEPT !.last_addr = addr]
        call  == SendTo(SRTLA_SOCK, addr, BE16(SRTLA_TYPE_REG2) \o group.id, send_ok)
    IN  IF Len(gs) >= MAX_GROUPS
        THEN [groups |-> gs,
              tx     |-> <<SendTo(SRTLA_SOCK, addr, BE16(SRTLA_TYPE_REG_ERR), TRUE)>>,
              ret    |-> -1]
        ELSE IF find_by_address(gs, addr).g # 0
        THEN [groups |-> Append(gs, group),
              tx     |-> <<SendTo(SRTLA_SOCK, addr, BE16(SRTLA_TYPE_REG_ERR), TRUE)>>,
              ret    |-> -1]
        ELSE [groups |-> IF send_ok THEN Append(gs, group) ELSE gs,
              tx     |-> <<call>>,
              ret    |-> IF send_ok THEN 0 ELSE -1]

\* register_group with the limit tested by > instead of >=
register_group_one_more(gs, addr, buffer, t, random_bytes, send_ok) ==
    IF Len(gs) > MAX_GROUPS
    THEN [groups |-> gs,
          tx     |-> <<SendTo(SRTLA_SOCK, addr, BE16(SRTLA_TYPE_REG_ERR), TRUE)>>,
          ret    |-> -1]
    ELSE IF find_by_address(gs, addr).g # 0
    THEN [groups |-> gs,
          tx     |-> <<SendTo(SRTLA_SOCK, addr, BE16(SRTLA_TYPE_REG_ERR), TRUE)>>,
          ret    |-> -1]
    ELSE LET client_id == SubSeq(buffer, 3, Len(buffer))
             group     == [NewGroup(client_id, t, random_bytes) EXCEPT !.last_addr = addr]
             out_buf   == BE16(SRTLA_TYPE_REG2) \o group.id
         IN  IF ~send_ok
             THEN [groups |-> gs,
                   tx     |-> <<SendTo(SRTLA_SOCK, addr, out_buf, FALSE)>>,
                   ret    |-> -1]
             ELSE [groups |-> Append(gs, group),
                   tx     |-> <<SendTo(SRTLA_SOCK, addr, out_buf, TRUE)>>,
                   ret    |-> 0]

\* register_group: [groups, tx, ret]
register_group(gs, addr, buffer, t, random_bytes, send_ok) ==
    IF Len(gs) >= MAX_GROUPS
    THEN [groups |-> gs,
          tx     |-> <<SendTo(SRTLA_SOCK, addr, BE16(SRTLA_TYPE_REG_ERR), TRUE)>>,
          ret    |-> -1]
    ELSE IF find_by_address(gs, addr).g # 0
    THEN [groups |-> gs,
          tx     |-> <<SendTo(SRTLA_SOCK, addr, BE16(SRTLA_TYPE_REG_ERR), TRUE)>>,
          ret    |-> -1]
    ELSE LET client_id == SubSeq(buffer, 3, Len(buffer))
             group     == [NewGroup(client_id, t, random_bytes) EXCEPT !.last_addr = addr]
             out_buf   == BE16(SRTLA_TYPE_REG2) \o group.id
         IN  IF ~send_ok
             THEN [groups |-> gs,
                   tx     |-> <<SendTo(SRTLA_SOCK, addr, out_buf, FALSE)>>,
                   ret    |-> -1]
             ELSE [groups |-> Append(gs, group),
                   tx     |-> <<SendTo(SRTLA_SOCK, addr, out_buf, TRUE)>>,
                   ret    |-> 0]

\* reg_accept that leaves last_address alone
reg_accept_keep_last(gs, group, found, addr, t, send_ok) ==
    IF ~send_ok
    THEN [groups |-> gs,
          tx     |-> <<SendTo(SRTLA_SOCK, addr, BE16(SRTLA_TYPE_REG3), FALSE)>>,
          ret    |-> -1, waited |-> FALSE]
    ELSE LET already_registered == found.c # 0
             conns == IF already_registered THEN gs[group].conns
                      ELSE Append(gs[group].conns, NewConnection(addr, t))
         IN  [groups |-> [gs EXCEPT ![group] = [@ EXCEPT !.conns = conns]],
              tx     |-> <<SendTo(SRTLA_SOCK, addr, BE16(SRTLA_TYPE_REG3), TRUE)>>,
              ret    |-> 0, waited |-> FALSE]

\* the end of register_connection, once the request is acceptable: the REG3
\* reply, then the new connection and last_address
reg_accept(gs, group, found, addr, t, send_ok) ==
    IF ~send_ok
    THEN [groups |-> gs,
          tx     |-> <<SendTo(SRTLA_SOCK, addr, BE16(SRTLA_TYPE_REG3), FALSE)>>,
          ret    |-> -1, waited |-> FALSE]
    ELSE LET already_registered == found.c # 0
             conns == IF already_registered THEN gs[group].conns
                      ELSE Append(gs[group].conns, NewConnection(addr, t))
         IN  [groups |-> [gs EXCEPT ![group] =
                            [@ EXCEPT !.conns = conns, !.last_addr = addr]],
              tx     |-> <<SendTo(SRTLA_SOCK, addr, BE16(SRTLA_TYPE_REG3), TRUE)>>,
              ret    |-> 0, waited |-> FALSE]

\* register_connection without the test that the address belongs to another group
register_connection_any_group(gs, addr, buffer, t, send_ok) ==
    LET group == find_group_by_id(gs, SubSeq(buffer, 3, 2 + SRTLA_ID_LEN))
        found == find_by_address(gs, addr)
    IN  IF group = 0
        THEN reg_reject(gs, addr, SRTLA_TYPE_REG_NGP, TRUE)
        ELSE IF found.c = 0 /\ Len(gs[group].conns) >= MAX_CONNS_PER_GROUP
        THEN reg_reject(gs, addr, SRTLA_TYPE_REG_ERR, FALSE)
        ELSE reg_accept(gs, group, found, addr, t, send_ok)

\* register_connection that lets a full group grow
register_connection_no_limit(gs, addr, buffer, t, send_ok) ==
    LET group == find_group_by_id(gs, SubSeq(buffer, 3, 2 + SRTLA_ID_LEN))
        found == find_by_address(gs, addr)
    IN  IF group = 0
        THEN reg_reject(gs, addr, SRTLA_TYPE_REG_NGP, TRUE)
        ELSE IF found.g # 0 /\ found.g # group
        THEN reg_reject(gs, addr, SRTLA_TYPE_REG_ERR, FALSE)
        ELSE reg_accept(gs, group, found, addr, t, send_ok)

\* register_connection: [groups, tx, ret, waited]; waited: wait_group_by_id
\* has polled the registry for WAIT_GROUP_MS without finding the id
register_connection(gs, addr, buffer, t, send_ok) ==
    LET id    == SubSeq(buffer, 3, 2 + SRTLA_ID_LEN)
        group == find_group_by_id(gs, id)
        found == find_by_address(gs, addr)
    IN  IF group = 0
        THEN reg_reject(gs, addr, SRTLA_TYPE_REG_NGP, TRUE)
        ELSE IF found.g # 0 /\ found.g # group
        THEN reg_reject(gs, addr, SRTLA_TYPE_REG_ERR, FALSE)
        ELSE IF found.c = 0 /\ Len(gs[group].conns) >= MAX_CONNS_PER_GROUP
        THEN reg_reject(gs, addr, SRTLA_TYPE_REG_ERR, FALSE)
        ELSE reg_accept(gs, group, found, addr, t, send_ok)

\* uint64_t min_interval = ACK_THROTTLE_INTERVAL / factor (truncated)
MinAckInterval(factor) == (ACK_THROTTLE_INTERVAL * factor.den) \div factor.num

\* the 4 + 4 * RECV_ACK_INT bytes of srtla_ack_pkt
RECURSIVE Flatten(_)
Flatten(log) == IF log = <<>> THEN <<>> ELSE Head(log) \o Flatten(Tail(log))

AckPacket(recv_log) == BE16(SRTLA_TYPE_ACK) \o <<0, 0>> \o Flatten(recv_log)

\* register_packet that logs sn in host byte order (little-endian), without htobe32
register_packet_host_order(conn, sn, current_ms, ack_ok) ==
    LET idx    == conn.recv_idx + 1
        host   == <<sn % 256, (sn \div 256) % 256, (sn \div 65536) % 256, sn \div 16777216>>
        logged == [conn EXCEPT !.recv_idx = idx, !.recv_log[idx] = host]
        factor == conn.stats.ack_throttle_factor
        throttled ==
            /\ factor.num > 0 /\ factor.num < factor.den
            /\ conn.stats.last_ack_sent_time > 0
            /\ current_ms < conn.stats.last_ack_sent_time + MinAckInterval(factor)
    IN  IF idx # RECV_ACK_INT
        THEN [conn |-> logged, tx |-> <<>>]
        ELSE IF throttled
        THEN [conn |-> [logged EXCEPT !.recv_idx = 0], tx |-> <<>>]
        ELSE [conn |-> [logged EXCEPT
                          !.recv_idx = 0,
                          !.stats.last_ack_sent_time = IF ack_ok THEN current_ms ELSE @],
              tx   |-> <<SendTo(SRTLA_SOCK, conn.addr, AckPacket(logged.recv_log), ack_ok)>>]

\* register_packet that resets recv_idx only when it emits the ACK
register_packet_reset_on_ack(conn, sn, current_ms, ack_ok) ==
    LET idx    == conn.recv_idx + 1
        logged == [conn EXCEPT !.recv_idx = idx, !.recv_log[idx] = BE32(sn)]
        factor == conn.stats.ack_throttle_factor
        throttled ==
            /\ factor.num > 0 /\ factor.num < factor.den
            /\ conn.stats.last_ack_sent_time > 0
            /\ current_ms < conn.stats.last_ack_sent_time + MinAckInterval(factor)
    IN  IF idx # RECV_ACK_INT
        THEN [conn |-> logged, tx |-> <<>>]
        ELSE IF throttled
        THEN [conn |-> logged, tx |-> <<>>]
        ELSE [conn |-> [logged EXCEPT
                          !.recv_idx = 0,
                          !.stats.last_ack_sent_time = IF ack_ok THEN current_ms ELSE @],
              tx   |-> <<SendTo(SRTLA_SOCK, conn.addr, AckPacket(logged.recv_log), ack_ok)>>]

\* register_packet that emits every ACK, whatever the throttle
register_packet_never_throttled(conn, sn, current_ms, ack_ok) ==
    LET idx    == conn.recv_idx + 1
        logged == [conn EXCEPT !.recv_idx = idx, !.recv_log[idx] = BE32(sn)]
        factor == conn.stats.ack_throttle_factor
        throttled == FALSE
    IN  IF idx # RECV_ACK_INT
        THEN [conn |-> logged, tx |-> <<>>]
        ELSE IF throttled
        THEN [conn |-> [logged EXCEPT !.recv_idx = 0], tx |-> <<>>]
        ELSE [conn |-> [logged EXCEPT
                          !.recv_idx = 0,
                          !.stats.last_ack_sent_time = IF ack_ok THEN current_ms ELSE @],
              tx   |-> <<SendTo(SRTLA_SOCK, conn.addr, AckPacket(logged.recv_log), ack_ok)>>]

\* register_packet: [conn, tx]
register_packet(conn, sn, current_ms, ack_ok) ==
    LET idx    == conn.recv_idx + 1
        logged == [conn EXCEPT !.recv_idx = idx, !.recv_log[idx] = BE32(sn)]
        factor == conn.stats.ack_throttle_factor
        throttled ==
            /\ factor.num > 0 /\ factor.num < factor.den
            /\ conn.stats.last_ack_sent_time > 0
            /\ current_ms < conn.stats.last_ack_sent_time + MinAckInterval(factor)
    IN  IF idx # RECV_ACK_INT
        THEN [conn |-> logged, tx |-> <<>>]
        ELSE IF throttled
        THEN [conn |-> [logged EXCEPT !.recv_idx = 0], tx |-> <<>>]
        ELSE [conn |-> [logged EXCEPT
                          !.recv_idx = 0,
                          !.stats.last_ack_sent_time = IF ack_ok THEN current_ms ELSE @],
              tx   |-> <<SendTo(SRTLA_SOCK, conn.addr, AckPacket(logged.recv_log), ack_ok)>>]

\* (int32_t) of four big-endian bytes
S32(b) == FromBE32([b EXCEPT ![1] = IF @ >= 128 THEN @ - 256 ELSE @])

\* parse_keepalive_conn_info: [ok, info]; buf[k] of the code is buf[k + 1]
\* here.  rtt_ms is the field of connection_info_t that the handler reads
\* for the 8 bytes at 26; update_rtt_history takes it as uint32_t, the low
\* four bytes.  conn_id and the bitrate only reach the log.
parse_keepalive_conn_info(buf, len) ==
    IF len < SRTLA_KEEPALIVE_EXT_LEN THEN [ok |-> FALSE]
    ELSE IF (buf[1] * 256) + buf[2] # SRTLA_TYPE_KEEPALIVE THEN [ok |-> FALSE]
    ELSE IF (buf[11] * 256) + buf[12] # SRTLA_KEEPALIVE_MAGIC THEN [ok |-> FALSE]
    ELSE IF (buf[13] * 256) + buf[14] # SRTLA_KEEPALIVE_EXT_VERSION THEN [ok |-> FALSE]
    ELSE [ok        |-> TRUE,
          window    |-> S32(SubSeq(buf, 19, 22)),
          in_flight |-> S32(SubSeq(buf, 23, 26)),
          rtt_ms    |-> FromBE32(SubSeq(buf, 31, 34)),
          nak_count |-> FromBE32(SubSeq(buf, 35, 38))]

update_rtt_history(stats, rtt) ==
    [stats EXCEPT !.rtt_history[stats.rtt_history_idx + 1] = rtt,
                  !.rtt_history_idx = (@ + 1) % RTT_HISTORY_SIZE,
                  !.rtt_ms = rtt]

update_connection_telemetry(conn, info, current_time) ==
    [conn EXCEPT !.stats = [update_rtt_history(@, info.rtt_ms) EXCEPT
                               !.window = info.window,
                               !.in_flight = info.in_flight,
                               !.sender_nak_count = info.nak_count,
                               !.last_keepalive = current_time]]

\* handle_keepalive that answers only the keepalives without telemetry
handle_keepalive_plain_only(conn, addr, buffer, length, current_time) ==
    LET info == parse_keepalive_conn_info(buffer, length)
    IN  [conn |-> IF info.ok THEN update_connection_telemetry(conn, info, current_time)
                  ELSE conn,
         tx   |-> IF info.ok THEN <<>>
                  ELSE <<SendTo(SRTLA_SOCK, addr, SubSeq(buffer, 1, length), TRUE)>>]

\* handle_keepalive: [conn, tx]; current_time is what get_seconds returns
handle_keepalive(conn, addr, buffer, length, current_time) ==
    LET info == parse_keepalive_conn_info(buffer, length)
    IN  [conn |-> IF info.ok THEN update_connection_telemetry(conn, info, current_time)
                  ELSE conn,
         tx   |-> <<SendTo(SRTLA_SOCK, addr, SubSeq(buffer, 1, length), TRUE)>>]

---------------------------------------------------------------------------
(* Metrics collector: metrics_collector.cpp *)

on_packet_received(conn, bytes) ==
    [conn EXCEPT !.stats.bytes_received = @ + bytes,
                 !.stats.packets_received = @ + 1]

on_nak_detected(conn, nak_count) ==
    [conn EXCEPT !.stats.packets_lost = @ + nak_count,
                 !.stats.nack_count = (@ + nak_count) % 65536]

---------------------------------------------------------------------------
(* Quality evaluator: quality_evaluator.cpp.  validate_bitrate and the     *)
(* group's total_target_bandwidth only feed the log and are left out.      *)

\* ConnectionStats::has_valid_sender_telemetry
has_valid_sender_telemetry(stats, current_time) ==
    /\ stats.last_keepalive # 0
    /\ ~((current_time - stats.last_keepalive) > KEEPALIVE_STALENESS_THRESHOLD)
    /\ (stats.rtt_ms > 0 \/ stats.window > 0)

RECURSIVE SumOver(_, _)
SumOver(f, n) == IF n = 0 THEN 0 ELSE f[n] + SumOver(f, n - 1)

\* calculate_rtt_variance(stats) > RTT_VARIANCE_THRESHOLD: the standard
\* deviation of the samples above 0, compared by its square
rtt_jitter_high(stats) ==
    LET h      == stats.rtt_history
        count  == Cardinality({i \in 1..RTT_HISTORY_SIZE : h[i] > 0})
        sum    == SumOver(h, RTT_HISTORY_SIZE)
        sum_sq == SumOver([i \in 1..RTT_HISTORY_SIZE |-> h[i] * h[i]], RTT_HISTORY_SIZE)
    IN  /\ count >= 2
        /\ count * sum_sq - sum * sum
              > RTT_VARIANCE_THRESHOLD * RTT_VARIANCE_THRESHOLD * count * count

\* the tiers with their thresholds included
calculate_rtt_error_points_inclusive(stats, current_time) ==
    IF stats.last_keepalive = 0
       \/ (current_time - stats.last_keepalive) > KEEPALIVE_STALENESS_THRESHOLD
    THEN 0
    ELSE (IF stats.rtt_ms >= RTT_THRESHOLD_CRITICAL THEN 20
          ELSE IF stats.rtt_ms >= RTT_THRESHOLD_HIGH THEN 10
          ELSE IF stats.rtt_ms >= RTT_THRESHOLD_MODERATE THEN 5
          ELSE 0)
         + (IF rtt_jitter_high(stats) THEN 10 ELSE 0)

calculate_rtt_error_points(stats, current_time) ==
    IF stats.last_keepalive = 0
       \/ (current_time - stats.last_keepalive) > KEEPALIVE_STALENESS_THRESHOLD
    THEN 0
    ELSE (IF stats.rtt_ms > RTT_THRESHOLD_CRITICAL THEN 20
          ELSE IF stats.rtt_ms > RTT_THRESHOLD_HIGH THEN 10
          ELSE IF stats.rtt_ms > RTT_THRESHOLD_MODERATE THEN 5
          ELSE 0)
         + (IF rtt_jitter_high(stats) THEN 10 ELSE 0)

\* calculate_nak_error_points: the points; the function also takes the
\* snapshot last_sender_nak_count (see evaluate_connection)
calculate_nak_error_points(stats, packets_diff) ==
    IF packets_diff = 0 \/ stats.sender_nak_count = 0 THEN 0
    ELSE LET nak_diff == stats.sender_nak_count - stats.last_sender_nak_count
             nak_rate == Rat(nak_diff, packets_diff)
         IN  \* uint32_t: a counter that went back wraps to a rate above every threshold
             IF nak_diff < 0 THEN 40
             ELSE IF RLess(NAK_RATE_CRITICAL, nak_rate) THEN 40
             ELSE IF RLess(NAK_RATE_HIGH, nak_rate) THEN 20
             ELSE IF RLess(NAK_RATE_MODERATE, nak_rate) THEN 10
             ELSE IF RLess(NAK_RATE_LOW, nak_rate) THEN 5
             ELSE 0

calculate_window_error_points(stats) ==
    IF stats.window <= 0 THEN 0
    ELSE IF stats.in_flight * WINDOW_UTILIZATION_CONGESTED.den
              > WINDOW_UTILIZATION_CONGESTED.num * stats.window
    THEN 15
    ELSE 0

\* the first loop with the snapshot taken before the rates are computed
QualityMetrics_snapshot_first(conn, current_ms) ==
    [bandwidth_kbits_per_sec |-> Zero, packet_loss_ratio |-> Zero, packets_diff |-> 0]

\* the first loop of evaluate_group: the rates of one connection since its
\* last evaluation snapshot
QualityMetrics(conn, current_ms) ==
    LET s            == conn.stats
        time_diff_ms == IF s.last_eval_time > 0 THEN current_ms - s.last_eval_time ELSE 0
        bytes_diff   == s.bytes_received - s.last_bytes_received
        packets_diff == s.packets_received - s.last_packets_received
        \* uint32_t; packets_lost only grows and stays far below 2^32 here
        lost_diff    == s.packets_lost - s.last_packets_lost
    IN  IF time_diff_ms > 0
        THEN [bandwidth_kbits_per_sec |-> Rat(bytes_diff * 8, time_diff_ms),
              packet_loss_ratio       |-> IF packets_diff > 0
                                          THEN Rat(lost_diff, packets_diff + lost_diff)
                                          ELSE Zero,
              packets_diff            |-> packets_diff]
        ELSE [bandwidth_kbits_per_sec |-> Zero,
              packet_loss_ratio       |-> Zero,
              packets_diff            |-> 0]

RECURSIVE InsertSorted(_, _)
InsertSorted(x, s) ==
    IF s = <<>> THEN <<x>>
    ELSE IF RLess(x, Head(s)) THEN <<x>> \o s
    ELSE <<Head(s)>> \o InsertSorted(x, Tail(s))

\* std::sort
RECURSIVE SortRat(_)
SortRat(s) == IF s = <<>> THEN <<>> ELSE InsertSorted(Head(s), SortRat(Tail(s)))

compute_median(values) ==
    LET v   == SortRat(values)
        mid == Len(v) \div 2
    IN  IF Len(v) % 2 = 0
        THEN RDiv(RAdd(v[mid], v[mid + 1]), Rat(2, 1))
        ELSE v[mid + 1]

RECURSIVE MaxRat(_)
MaxRat(s) == IF s = <<>> THEN Zero ELSE RMax(Head(s), MaxRat(Tail(s)))

\* the median the connections are compared with
MedianBandwidth(all_bandwidths) ==
    LET max_kbits_per_sec == MaxRat(all_bandwidths)
        good_threshold    == RMul(max_kbits_per_sec, GOOD_CONNECTION_THRESHOLD)
        good_bandwidths   == SelectSeq(all_bandwidths, LAMBDA bw : ~RLess(bw, good_threshold))
    IN  IF all_bandwidths # <<>> /\ RLess(Zero, max_kbits_per_sec)
        THEN IF good_bandwidths # <<>>
             THEN compute_median(good_bandwidths)
             ELSE compute_median(all_bandwidths)
        ELSE Zero

\* penalties for the bandwidth a connection delivers against the expected one
\* bandwidth_points with the light penalties for every sender
bandwidth_points_light(performance_ratio, supports_ext_keepalives) ==
    IF RLess(performance_ratio, Rat(3, 10)) THEN 10
    ELSE IF RLess(performance_ratio, Rat(5, 10)) THEN 7
    ELSE IF RLess(performance_ratio, Rat(7, 10)) THEN 4
    ELSE IF RLess(performance_ratio, Rat(85, 100)) THEN 2
    ELSE 0

bandwidth_points(performance_ratio, supports_ext_keepalives) ==
    IF supports_ext_keepalives
    THEN IF RLess(performance_ratio, Rat(3, 10)) THEN 10
         ELSE IF RLess(performance_ratio, Rat(5, 10)) THEN 7
         ELSE IF RLess(performance_ratio, Rat(7, 10)) THEN 4
         ELSE IF RLess(performance_ratio, Rat(85, 100)) THEN 2
         ELSE 0
    ELSE IF RLess(performance_ratio, Rat(3, 10)) THEN 40
         ELSE IF RLess(performance_ratio, Rat(5, 10)) THEN 25
         ELSE IF RLess(performance_ratio, Rat(7, 10)) THEN 15
         ELSE IF RLess(performance_ratio, Rat(85, 100)) THEN 5
         ELSE 0

\* penalties for the packet loss
loss_points(packet_loss_ratio) ==
    IF RLess(Rat(20, 100), packet_loss_ratio) THEN 40
    ELSE IF RLess(Rat(10, 100), packet_loss_ratio) THEN 20
    ELSE IF RLess(Rat(5, 100), packet_loss_ratio) THEN 10
    ELSE IF RLess(Rat(1, 100), packet_loss_ratio) THEN 5
    ELSE 0

\* a grace period that is over as soon as it starts
in_grace_period_never(conn, current_time) == FALSE

\* in_grace_period of the second loop of evaluate_group
in_grace_period(conn, current_time) ==
    (current_time - conn.connection_start) < CONNECTION_GRACE_PERIOD

\* the body of the second loop of evaluate_group for one connection
evaluate_connection(conn, metrics, median_kbits_per_sec, min_expected_kbits_per_sec, current_time, current_ms) ==
    IF in_grace_period(conn, current_time)
    THEN conn
    ELSE
    LET s == conn.stats
        is_poor_connection ==
            RLess(metrics.bandwidth_kbits_per_sec,
                  RMul(median_kbits_per_sec, GOOD_CONNECTION_THRESHOLD))
        expected_kbits_per_sec ==
            RMax(IF is_poor_connection THEN min_expected_kbits_per_sec
                 ELSE median_kbits_per_sec,
                 min_expected_kbits_per_sec)
        performance_ratio ==
            IF RLess(Zero, expected_kbits_per_sec)
            THEN RDiv(metrics.bandwidth_kbits_per_sec, expected_kbits_per_sec)
            ELSE Zero
        has_telemetry == has_valid_sender_telemetry(s, current_time)
        telemetry_error_points ==
            IF has_telemetry
            THEN calculate_rtt_error_points(s, current_time)
                 + calculate_nak_error_points(s, metrics.packets_diff)
                 + calculate_window_error_points(s)
            ELSE 0
    IN  [conn EXCEPT
           !.stats.error_points =
               bandwidth_points(performance_ratio, s.sender_supports_extended_keepalives)
               + loss_points(metrics.packet_loss_ratio)
               + telemetry_error_points,
           !.stats.last_sender_nak_count =
               IF has_telemetry /\ metrics.packets_diff # 0 /\ s.sender_nak_count # 0
               THEN s.sender_nak_count ELSE @,
           !.stats.last_bytes_received = s.bytes_received,
           !.stats.last_packets_received = s.packets_received,
           !.stats.last_packets_lost = s.packets_lost,
           !.stats.last_eval_time = current_ms,
           !.stats.nack_count = 0]

\* evaluate_group without the test of the evaluation period
evaluate_group_any_time(group, current_time, current_ms) ==
    IF group.conns = <<>> \/ ~group.load_balancing_enabled THEN group
    ELSE
    LET n == Len(group.conns)
        bandwidth_info == [i \in 1..n |-> QualityMetrics(group.conns[i], current_ms)]
        all_bandwidths == [i \in 1..n |-> bandwidth_info[i].bandwidth_kbits_per_sec]
        median_kbits_per_sec == MedianBandwidth(all_bandwidths)
        min_expected_kbits_per_sec ==
            RMax(Rat(100, 1), Rat(MIN_ACCEPTABLE_TOTAL_BANDWIDTH_KBPS, n))
    IN  [group EXCEPT
            !.conns = [i \in 1..n |->
                evaluate_connection(group.conns[i], bandwidth_info[i],
                                    median_kbits_per_sec, min_expected_kbits_per_sec,
                                    current_time, current_ms)],
            !.last_quality_eval = current_time]

\* evaluate_group; current_ms is what get_ms returns inside it
evaluate_group(group, current_time, current_ms) ==
    IF group.conns = <<>> \/ ~group.load_balancing_enabled THEN group
    ELSE IF group.last_quality_eval + CONN_QUALITY_EVAL_PERIOD > current_time THEN group
    ELSE
    LET n == Len(group.conns)
        bandwidth_info == [i \in 1..n |-> QualityMetrics(group.conns[i], current_ms)]
        all_bandwidths == [i \in 1..n |-> bandwidth_info[i].bandwidth_kbits_per_sec]
        median_kbits_per_sec == MedianBandwidth(all_bandwidths)
        min_expected_kbits_per_sec ==
            RMax(Rat(100, 1), Rat(MIN_ACCEPTABLE_TOTAL_BANDWIDTH_KBPS, n))
    IN  [group EXCEPT
            !.conns = [i \in 1..n |->
                evaluate_connection(group.conns[i], bandwidth_info[i],
                                    median_kbits_per_sec, min_expected_kbits_per_sec,
                                    current_time, current_ms)],
            !.last_quality_eval = current_time]

---------------------------------------------------------------------------
(* Load balancer: load_balancer.cpp *)

Max(S) == CHOOSE x \in S : \A y \in S : y <= x

\* the buckets with every threshold one bucket too low
weight_of_lenient(error_points) ==
    IF error_points >= 40 THEN WEIGHT_POOR
    ELSE IF error_points >= 25 THEN WEIGHT_FAIR
    ELSE IF error_points >= 15 THEN WEIGHT_DEGRADED
    ELSE IF error_points >= 10 THEN WEIGHT_EXCELLENT
    ELSE WEIGHT_FULL

\* phase 1 of adjust_weights: the weight of a connection with these error points
weight_of(error_points) ==
    IF error_points >= 40 THEN WEIGHT_CRITICAL
    ELSE IF error_points >= 25 THEN WEIGHT_POOR
    ELSE IF error_points >= 15 THEN WEIGHT_FAIR
    ELSE IF error_points >= 10 THEN WEIGHT_DEGRADED
    ELSE IF error_points >= 5 THEN WEIGHT_EXCELLENT
    ELSE WEIGHT_FULL

\* the throttle without the floor MIN_ACK_RATE
new_throttle_no_floor(weight_percent, max_weight) ==
    LET absolute_quality == Rat(weight_percent, WEIGHT_FULL)
        relative_quality == IF max_weight > 0 THEN Rat(weight_percent, max_weight) ELSE Zero
    IN  RMin(absolute_quality, relative_quality)

\* the throttle from the relative quality alone
new_throttle_relative(weight_percent, max_weight) ==
    LET relative_quality == IF max_weight > 0 THEN Rat(weight_percent, max_weight) ELSE Zero
    IN  RMax(MIN_ACK_RATE, RMin(One, relative_quality))

\* phase 2 of adjust_weights: the throttle of a connection of this weight
new_throttle(weight_percent, max_weight) ==
    LET absolute_quality == Rat(weight_percent, WEIGHT_FULL)
        relative_quality == IF max_weight > 0 THEN Rat(weight_percent, max_weight) ELSE Zero
    IN  RMax(MIN_ACK_RATE, RMin(absolute_quality, relative_quality))

\* adjust_weights whose phase 2 reads the weight the connection had before
\* phase 1
adjust_weights_old_weight(group, current_time) ==
    IF group.conns = <<>> THEN group
    ELSE IF group.load_balancing_enabled
            /\ group.last_load_balance_eval >= group.last_quality_eval
    THEN group
    ELSE IF ~group.load_balancing_enabled
            /\ group.last_load_balance_eval # 0
            /\ (group.last_load_balance_eval + CONN_QUALITY_EVAL_PERIOD) > current_time
    THEN group
    ELSE
    LET n == Len(group.conns)
        weighted == [i \in 1..n |->
            [group.conns[i] EXCEPT
                !.stats.weight_percent = weight_of(group.conns[i].stats.error_points)]]
        active == {i \in 1..n : ~((weighted[i].last_rcvd + CONN_TIMEOUT) < current_time)}
        max_weight == Max({0} \cup {weighted[i].stats.weight_percent : i \in active})
    IN  [group EXCEPT
            !.last_load_balance_eval = current_time,
            !.conns =
                IF group.load_balancing_enabled /\ Cardinality(active) > 1
                THEN [i \in 1..n |->
                        LET old_throttle == weighted[i].stats.ack_throttle_factor
                            throttle == new_throttle(group.conns[i].stats.weight_percent,
                                                     max_weight)
                        IN  IF RLess(Rat(1, 100), RDist(old_throttle, throttle))
                            THEN [weighted[i] EXCEPT !.stats.ack_throttle_factor = throttle]
                            ELSE weighted[i]]
                ELSE [i \in 1..n |->
                        [weighted[i] EXCEPT !.stats.ack_throttle_factor = One]]]

\* adjust_weights that ignores throttle changes of up to 0.2
adjust_weights_sticky(group, current_time) ==
    IF group.conns = <<>> THEN group
    ELSE IF group.load_balancing_enabled
            /\ group.last_load_balance_eval >= group.last_quality_eval
    THEN group
    ELSE IF ~group.load_balancing_enabled
            /\ group.last_load_balance_eval # 0
            /\ (group.last_load_balance_eval + CONN_QUALITY_EVAL_PERIOD) > current_time
    THEN group
    ELSE
    LET n == Len(group.conns)
        weighted == [i \in 1..n |->
            [group.conns[i] EXCEPT
                !.stats.weight_percent = weight_of(group.conns[i].stats.error_points)]]
        active == {i \in 1..n : ~((weighted[i].last_rcvd + CONN_TIMEOUT) < current_time)}
        max_weight == Max({0} \cup {weighted[i].stats.weight_percent : i \in active})
    IN  [group EXCEPT
            !.last_load_balance_eval = current_time,
            !.conns =
                IF group.load_balancing_enabled /\ Cardinality(active) > 1
                THEN [i \in 1..n |->
                        LET old_throttle == weighted[i].stats.ack_throttle_factor
                            throttle == new_throttle(weighted[i].stats.weight_percent,
                                                     max_weight)
                        IN  IF RLess(Rat(20, 100), RDist(old_throttle, throttle))
                            THEN [weighted[i] EXCEPT !.stats.ack_throttle_factor = throttle]
                            ELSE weighted[i]]
                ELSE [i \in 1..n |->
                        [weighted[i] EXCEPT !.stats.ack_throttle_factor = One]]]

\* LoadBalancer::adjust_weights
adjust_weights(group, current_time) ==
    IF group.conns = <<>> THEN group
    ELSE IF group.load_balancing_enabled
            /\ group.last_load_balance_eval >= group.last_quality_eval
    THEN group
    ELSE IF ~group.load_balancing_enabled
            /\ group.last_load_balance_eval # 0
            /\ (group.last_load_balance_eval + CONN_QUALITY_EVAL_PERIOD) > current_time
    THEN group
    ELSE
    LET n == Len(group.conns)
        weighted == [i \in 1..n |->
            [group.conns[i] EXCEPT
                !.stats.weight_percent = weight_of(group.conns[i].stats.error_points)]]
        active == {i \in 1..n : ~((weighted[i].last_rcvd + CONN_TIMEOUT) < current_time)}
        max_weight == Max({0} \cup {weighted[i].stats.weight_percent : i \in active})
    IN  [group EXCEPT
            !.last_load_balance_eval = current_time,
            !.conns =
                IF group.load_balancing_enabled /\ Cardinality(active) > 1
                THEN [i \in 1..n |->
                        LET old_throttle == weighted[i].stats.ack_throttle_factor
                            throttle == new_throttle(weighted[i].stats.weight_percent,
                                                     max_weight)
                        IN  IF RLess(Rat(1, 100), RDist(old_throttle, throttle))
                            THEN [weighted[i] EXCEPT !.stats.ack_throttle_factor = throttle]
                            ELSE weighted[i]]
                ELSE [i \in 1..n |->
                        [weighted[i] EXCEPT !.stats.ack_throttle_factor = One]]]

---------------------------------------------------------------------------
(* SRT egress handler: srt_handler.cpp *)

SRT_ADDR == [family |-> 2, ip |-> <<127, 0, 0, 1>> \o Zeros(12), port |-> 4001]

\* socket(): the lowest descriptor not in use
NewFd(gs) ==
    Min({fd \in FIRST_SRT_FD..(FIRST_SRT_FD + Len(gs)) :
            \A i \in 1..Len(gs) : gs[i].srt_sock # fd})

\* ensure_group_socket that gives up on a failure but leaves the group alone
ensure_group_socket_keep(gs, g, sock_ok) ==
    IF gs[g].srt_sock >= 0 THEN [groups |-> gs, ok |-> TRUE]
    ELSE IF ~sock_ok THEN [groups |-> gs, ok |-> FALSE]
    ELSE [groups |-> [gs EXCEPT ![g].srt_sock = NewFd(gs)], ok |-> TRUE]

\* ensure_group_socket: [groups, ok]
ensure_group_socket(gs, g, sock_ok) ==
    IF gs[g].srt_sock >= 0 THEN [groups |-> gs, ok |-> TRUE]
    ELSE IF ~sock_ok THEN [groups |-> remove_group(gs, g), ok |-> FALSE]
    ELSE [groups |-> [gs EXCEPT ![g].srt_sock = NewFd(gs)], ok |-> TRUE]

\* forward_to_srt_server that only sets the socket up when there is none yet,
\* and loses the datagram that made it do so
forward_to_srt_server_drop_first(gs, g, buffer, length, sock_ok, send_ok) ==
    LET ens  == ensure_group_socket(gs, g, sock_ok)
        call == SendTo(ens.groups[g].srt_sock, SRT_ADDR, SubSeq(buffer, 1, length), send_ok)
    IN  IF ~ens.ok THEN [groups |-> ens.groups, tx |-> <<>>, ok |-> FALSE, err |-> "socket"]
        ELSE IF gs[g].srt_sock < 0
        THEN [groups |-> ens.groups, tx |-> <<>>, ok |-> TRUE, err |-> ""]
        ELSE IF ~send_ok
        THEN [groups |-> remove_group(ens.groups, g), tx |-> <<call>>, ok |-> FALSE,
              err |-> "send"]
        ELSE [groups |-> ens.groups, tx |-> <<call>>, ok |-> TRUE, err |-> ""]

\* forward_to_srt_server: [groups, tx, ok, err]; err is the error it logs:
\* "socket" (ensure_group_socket failed), "send" (short write) or none
forward_to_srt_server(gs, g, buffer, length, sock_ok, send_ok) ==
    LET ens == ensure_group_socket(gs, g, sock_ok)
    IN  IF ~ens.ok THEN [groups |-> ens.groups, tx |-> <<>>, ok |-> FALSE, err |-> "socket"]
        ELSE LET call == SendTo(ens.groups[g].srt_sock, SRT_ADDR,
                                SubSeq(buffer, 1, length), send_ok)
             IN  IF ~send_ok
                 THEN [groups |-> remove_group(ens.groups, g), tx |-> <<call>>,
                       ok |-> FALSE, err |-> "send"]
                 ELSE [groups |-> ens.groups, tx |-> <<call>>, ok |-> TRUE, err |-> ""]

\* handle_srt_data that sends SRT ACKs, like all the rest, to last_address only
handle_srt_data_last_only(gs, g, buf, n) ==
    IF n < SRT_MIN_LEN THEN [groups |-> remove_group(gs, g), tx |-> <<>>, err |-> "read"]
    ELSE [groups |-> gs,
          tx     |-> <<SendTo(SRTLA_SOCK, gs[g].last_addr, SubSeq(buf, 1, n), TRUE)>>,
          err    |-> ""]

\* handle_srt_data with n >= 0 bytes read (n < 0: the read failed):
\* [groups, tx, err]; err is "read" when it logs the failed read
handle_srt_data(gs, g, buf, n) ==
    IF n < SRT_MIN_LEN THEN [groups |-> remove_group(gs, g), tx |-> <<>>, err |-> "read"]
    ELSE IF is_srt_ack(buf, n)
    THEN [groups |-> gs,
          tx     |-> [i \in 1..Len(gs[g].conns) |->
                        SendTo(SRTLA_SOCK, gs[g].conns[i].addr, SubSeq(buf, 1, n), TRUE)],
          err    |-> ""]
    ELSE [groups |-> gs,
          tx     |-> <<SendTo(SRTLA_SOCK, gs[g].last_addr, SubSeq(buf, 1, n), TRUE)>>,
          err    |-> ""]

---------------------------------------------------------------------------
(* SRTLAHandler::process_packet.  env holds what the environment decides:  *)
(* random_bytes (the group id's second half), send_ok (REG2/REG3 reply),   *)
(* ack_ok (SRTLA ACK), sock_ok (SRT socket set-up), fwd_ok (send to SRT).  *)

\* mark_received that starts the recovery anew whenever the connection had
\* timed out
mark_received_restart(conn, t) ==
    [conn EXCEPT !.last_rcvd = t,
                 !.recovery_start = IF (conn.last_rcvd + CONN_TIMEOUT) < t THEN t ELSE @]

\* update_last_received, and set_recovery_start if the connection had timed out
mark_received(conn, t) ==
    LET was_timed_out == (conn.last_rcvd + CONN_TIMEOUT) < t
    IN  [conn EXCEPT
            !.last_rcvd = t,
            !.recovery_start = IF conn.recovery_start = 0 /\ was_timed_out THEN t ELSE @]

\* the end of process_packet for an SRT packet: register_packet if it is a
\* data packet, then forward_to_srt_server
register_and_forward(gs, g, c, buf, n, current_ms, env) ==
    LET sn  == get_srt_sn(buf, n)
        reg == IF sn >= 0
               THEN register_packet(gs[g].conns[c], sn, current_ms, env.ack_ok)
               ELSE [conn |-> gs[g].conns[c], tx |-> <<>>]
        fwd == forward_to_srt_server([gs EXCEPT ![g].conns[c] = reg.conn],
                                     g, buf, n, env.sock_ok, env.fwd_ok)
    IN  [groups |-> fwd.groups, tx |-> reg.tx \o fwd.tx, waited |-> FALSE,
         err |-> fwd.err]

\* process_known that takes a keepalive for traffic: it becomes the group's
\* last address and is counted before it is answered
process_known_keepalive_counted(gs, g, c, addr, buf, n, t, current_ms, env) ==
    LET conn1 == on_packet_received(mark_received(gs[g].conns[c], t), n)
        gs1   == [gs EXCEPT ![g].last_addr = addr, ![g].conns[c] = conn1]
    IN  IF is_srtla_keepalive(buf, n)
        THEN LET ka == handle_keepalive(conn1, addr, buf, n, current_ms \div 1000)
             IN  [groups |-> [gs1 EXCEPT ![g].conns[c] = ka.conn], tx |-> ka.tx,
                  waited |-> FALSE, err |-> ""]
        ELSE register_and_forward(gs1, g, c, buf, n, current_ms, env)

\* the part after the sender is resolved to (group g, connection c)
process_known(gs, g, c, addr, buf, n, t, current_ms, env) ==
    LET conn0 == gs[g].conns[c]
        conn1 == mark_received(conn0, t)
        gs1 == [gs EXCEPT ![g].conns[c] = conn1]
    IN  IF is_srtla_keepalive(buf, n)
        THEN LET ka == handle_keepalive(conn1, addr, buf, n, current_ms \div 1000)
             IN  [groups |-> [gs1 EXCEPT ![g].conns[c] = ka.conn], tx |-> ka.tx,
                  waited |-> FALSE, err |-> ""]
        ELSE IF n < SRT_MIN_LEN
        THEN [groups |-> gs1, tx |-> <<>>, waited |-> FALSE, err |-> ""]
        ELSE
        LET conn2 == on_packet_received(conn1, n)
            gs2   == [gs1 EXCEPT ![g].last_addr = addr, ![g].conns[c] = conn2]
            isnak == is_srt_nak_packet(buf, n)
            dedup == should_accept_nak(gs2[g].nak_cache,
                                       hash_nak_payload(buf, n, NAK_HASH_PREFIX),
                                       current_ms)
            gs3   == [gs2 EXCEPT ![g].nak_cache = dedup.cache]
        IN  IF isnak /\ ~dedup.accept
            THEN [groups |-> gs3, tx |-> <<>>, waited |-> FALSE, err |-> ""]
            ELSE
            LET conn3 == on_nak_detected(conn2, 1)
                gs4   == IF ~isnak THEN gs2
                         ELSE LET counted == [gs3 EXCEPT ![g].conns[c] = conn3]
                              IN  IF conn3.stats.nack_count > 5
                                     /\ (counted[g].last_quality_eval + 1) < t
                                  THEN [counted EXCEPT ![g] = evaluate_group(@, t, current_ms)]
                                  ELSE counted
            IN  register_and_forward(gs4, g, c, buf, n, current_ms, env)

\* process_packet that answers the keepalives of senders it does not know
process_packet_echo_unknown(gs, addr, buf, n, t, current_ms, env) ==
    IF is_srtla_reg1(buf, n)
    THEN LET r == register_group(gs, addr, buf, t, env.random_bytes, env.send_ok)
         IN  [groups |-> r.groups, tx |-> r.tx, waited |-> FALSE, err |-> ""]
    ELSE IF is_srtla_reg2(buf, n)
    THEN LET r == register_connection(gs, addr, buf, t, env.send_ok)
         IN  [groups |-> r.groups, tx |-> r.tx, waited |-> r.waited, err |-> ""]
    ELSE LET found == find_by_address(gs, addr)
         IN  IF found.g = 0 \/ found.c = 0
             THEN [groups |-> gs,
                   tx |-> IF is_srtla_keepalive(buf, n)
                          THEN <<SendTo(SRTLA_SOCK, addr, SubSeq(buf, 1, n), TRUE)>>
                          ELSE <<>>,
                   waited |-> FALSE, err |-> ""]
             ELSE process_known(gs, found.g, found.c, addr, buf, n, t, current_ms, env)

process_packet(gs, addr, buf, n, t, current_ms, env) ==
    IF is_srtla_reg1(buf, n)
    THEN LET r == register_group(gs, addr, buf, t, env.random_bytes, env.send_ok)
         IN  [groups |-> r.groups, tx |-> r.tx, waited |-> FALSE, err |-> ""]
    ELSE IF is_srtla_reg2(buf, n)
    THEN LET r == register_connection(gs, addr, buf, t, env.send_ok)
         IN  [groups |-> r.groups, tx |-> r.tx, waited |-> r.waited, err |-> ""]
    ELSE LET found == find_by_address(gs, addr)
         IN  IF found.g = 0 \/ found.c = 0
             THEN [groups |-> gs, tx |-> <<>>, waited |-> FALSE, err |-> ""]
             ELSE process_known(gs, found.g, found.c, addr, buf, n, t, current_ms, env)

---------------------------------------------------------------------------
(* ConnectionRegistry::cleanup_inactive *)

\* cleanup_inactive logs "Connection recovery completed" for the connection
recovery_completed(conn, current_time) ==
    /\ conn.recovery_start > 0
    /\ conn.last_rcvd > conn.recovery_start
    /\ (current_time - conn.recovery_start) > RECOVERY_CHANCE_PERIOD

\* cleanup_recovery that ends a recovery as soon as the connection has
\* received again
cleanup_recovery_eager(conn, current_time) ==
    IF conn.recovery_start > 0 /\ conn.last_rcvd > conn.recovery_start
    THEN [conn EXCEPT !.recovery_start = 0]
    ELSE conn

\* cleanup_recovery that ends a recovery only when it has failed
cleanup_recovery_failed_only(conn, current_time) ==
    IF conn.recovery_start > 0
          /\ ~(conn.last_rcvd > conn.recovery_start)
          /\ (conn.recovery_start + RECOVERY_CHANCE_PERIOD) < current_time
    THEN [conn EXCEPT !.recovery_start = 0]
    ELSE conn

\* the recovery state machine of one connection
cleanup_recovery(conn, current_time) ==
    IF conn.recovery_start > 0
    THEN IF conn.last_rcvd > conn.recovery_start
         THEN IF (current_time - conn.recovery_start) > RECOVERY_CHANCE_PERIOD
              THEN [conn EXCEPT !.recovery_start = 0]
              ELSE conn
         ELSE IF (conn.recovery_start + RECOVERY_CHANCE_PERIOD) < current_time
              THEN [conn EXCEPT !.recovery_start = 0]
              ELSE conn
    ELSE conn

\* SRTLAHandler::send_keepalive, the keepalive_cb of the reactor
send_keepalive(conn) == SendTo(SRTLA_SOCK, conn.addr, BE16(SRTLA_TYPE_KEEPALIVE), TRUE)

\* cleanup_inactive logs "Connection recovery failed" for the connection
recovery_failed(conn, current_time) ==
    /\ conn.recovery_start > 0
    /\ ~(conn.last_rcvd > conn.recovery_start)
    /\ (conn.recovery_start + RECOVERY_CHANCE_PERIOD) < current_time

\* the inner loop over one group's connections: [conns, tx, recovered,
\* failed]; recovered: the addresses logged with "Connection recovery
\* completed", failed: those logged with "Connection recovery failed"
RECURSIVE cleanup_conns(_, _)
cleanup_conns(conns, current_time) ==
    IF conns = <<>> THEN [conns |-> <<>>, tx |-> <<>>, recovered |-> <<>>, failed |-> <<>>]
    ELSE LET conn == cleanup_recovery(Head(conns), current_time)
             rest == cleanup_conns(Tail(conns), current_time)
             done == (IF recovery_completed(Head(conns), current_time)
                      THEN <<conn.addr>> ELSE <<>>) \o rest.recovered
             lost == (IF recovery_failed(Head(conns), current_time)
                      THEN <<conn.addr>> ELSE <<>>) \o rest.failed
         IN  IF conn_timed_out(conn, current_time)
             THEN [rest EXCEPT !.recovered = done, !.failed = lost]
             ELSE [conns |-> <<conn>> \o rest.conns,
                   tx    |-> (IF (conn.last_rcvd + KEEPALIVE_PERIOD) < current_time
                              THEN <<send_keepalive(conn)>> ELSE <<>>) \o rest.tx,
                   recovered |-> done,
                   failed |-> lost]

\* group_expired that does not look at the age of the group
group_expired_no_age(group, conns, current_time) == conns = <<>>

\* the test that erases a group: conns are its connections after the inner loop
\* group_expired that looks at the connections the group had before the
\* inner loop
group_expired_before_loop(group, conns, current_time) ==
    group.conns = <<>> /\ (group.created_at + GROUP_TIMEOUT) < current_time

\* group_expired that keeps a group that has its SRT socket
group_expired_without_socket(group, conns, current_time) ==
    conns = <<>> /\ (group.created_at + GROUP_TIMEOUT) < current_time /\ group.srt_sock < 0

group_expired(group, conns, current_time) ==
    conns = <<>> /\ (group.created_at + GROUP_TIMEOUT) < current_time

\* the outer loop: [groups, tx, recovered, failed]
RECURSIVE cleanup_groups(_, _)
cleanup_groups(gs, current_time) ==
    IF gs = <<>> THEN [groups |-> <<>>, tx |-> <<>>, recovered |-> <<>>, failed |-> <<>>]
    ELSE LET group == Head(gs)
             inner == cleanup_conns(group.conns, current_time)
             rest  == cleanup_groups(Tail(gs), current_time)
         IN  IF group_expired(group, inner.conns, current_time)
             THEN [groups |-> rest.groups, tx |-> inner.tx \o rest.tx,
                   recovered |-> inner.recovered \o rest.recovered,
                   failed |-> inner.failed \o rest.failed]
             ELSE [groups |-> <<[group EXCEPT !.conns = inner.conns]>> \o rest.groups,
                   tx     |-> inner.tx \o rest.tx,
                   recovered |-> inner.recovered \o rest.recovered,
                   failed |-> inner.failed \o rest.failed]

\* cleanup_inactive: [groups, last_run, tx, recovered, failed]
cleanup_inactive(gs, current_time, last) ==
    IF (last + CLEANUP_PERIOD) > current_time
    THEN [groups |-> gs, last_run |-> last, tx |-> <<>>, recovered |-> <<>>,
          failed |-> <<>>]
    ELSE LET r == cleanup_groups(gs, current_time)
         IN  [groups |-> r.groups, last_run |-> current_time, tx |-> r.tx,
              recovered |-> r.recovered, failed |-> r.failed]

---------------------------------------------------------------------------
(* Inputs *)

\* first monotonic-clock reading, in ms, and the horizon of the model
T0 == 10000
MaxRun == 6000

\* how far the clock may run ahead of the reactor's ts within one iteration
\* (every REG2 for an unknown id holds the reactor for WAIT_GROUP_MS)
MaxStale == 200

\* peers: two ports of one host and a second host
IP1 == Zeros(15) \o <<1>>
IP2 == Zeros(15) \o <<2>>
A1 == [family |-> AF_INET6, ip |-> IP1, port |-> 5001]
A2 == [family |-> AF_INET6, ip |-> IP1, port |-> 5002]
A3 == [family |-> AF_INET6, ip |-> IP2, port |-> 5001]
Addrs == {A1, A2, A3}

\* client-chosen halves: 00 01 .. 0f, and the same with its last byte changed
CID1 == [i \in 1..16 |-> i - 1]
CID2 == [i \in 1..16 |-> IF i = 16 THEN 255 ELSE i - 1]
ClientHalves == {CID1, CID2}

\* what get_random_bytes may deliver
RND1 == [i \in 1..16 |-> 160 + i]
RND2 == [i \in 1..16 |-> IF i = 16 THEN 0 ELSE 160 + i]
RandomHalves == {RND1, RND2}

Ids == {c \o r : c \in ClientHalves, r \in RandomHalves}

Reg1Pkt(client_half) == BE16(SRTLA_TYPE_REG1) \o client_half
Reg2Pkt(id) == BE16(SRTLA_TYPE_REG2) \o id
KeepalivePkt == BE16(SRTLA_TYPE_KEEPALIVE)
\* an SRT control packet of the given type and payload (16-byte header)
SrtControlPkt(type, payload) == BE16(type) \o Zeros(14) \o payload
\* an SRT data packet: sequence number, 12 more header bytes, payload
SrtDataPkt(sn, payload) == BE32(sn) \o Zeros(12) \o payload

NoEnv == [random_bytes |-> RND1, send_ok |-> TRUE, ack_ok |-> TRUE,
          sock_ok |-> TRUE, fwd_ok |-> TRUE]

NoRx == [kind |-> "none", addr |-> NullAddr, buf |-> <<>>, n |-> 0, g |-> 0, err |-> "",
         recovered |-> <<>>, failed |-> <<>>, events |-> <<>>, handled |-> <<>>,
         deadline |-> 0]

---------------------------------------------------------------------------
(* Actions *)

Init ==
    /\ groups = <<>>
    /\ now_ms = T0
    /\ ts = T0 \div 1000
    /\ last_run = 0
    /\ rx = NoRx
    /\ tx = <<>>

\* the SRTLA socket is readable: process_packet on one datagram
RecvSrtla(addr, buf, env) ==
    \E r \in {process_packet(groups, addr, buf, Len(buf), ts, now_ms, env)} :
        /\ r.waited => now_ms + WAIT_GROUP_MS <= (ts * 1000) + MaxStale
        /\ groups' = r.groups
        /\ tx' = r.tx
        /\ rx' = [NoRx EXCEPT !.kind = "srtla", !.addr = addr, !.buf = buf,
                              !.n = Len(buf), !.err = r.err]
        /\ now_ms' = IF r.waited THEN now_ms + WAIT_GROUP_MS ELSE now_ms
        /\ UNCHANGED <<ts, last_run>>

RecvReg1(addr, client_half, random_bytes, send_ok) ==
    RecvSrtla(addr, Reg1Pkt(client_half),
              [NoEnv EXCEPT !.random_bytes = random_bytes, !.send_ok = send_ok])

RecvReg2(addr, id, send_ok) ==
    RecvSrtla(addr, Reg2Pkt(id), [NoEnv EXCEPT !.send_ok = send_ok])

RecvPacket(addr, buf, ack_ok, sock_ok, fwd_ok) ==
    /\ ~is_srtla_reg1(buf, Len(buf)) /\ ~is_srtla_reg2(buf, Len(buf))
    /\ RecvSrtla(addr, buf,
                 [NoEnv EXCEPT !.ack_ok = ack_ok, !.sock_ok = sock_ok, !.fwd_ok = fwd_ok])

\* group i's SRT socket is readable: the reactor resolves the group by id
\* and handle_srt_data reads n bytes (n < 0: recv failed)
SrtReadable(i, buf, n) ==
    /\ i \in 1..Len(groups)
    /\ groups[i].srt_sock >= 0
    /\ LET g == find_group_by_id(groups, groups[i].id)
           r == handle_srt_data(groups, g, buf, n)
       IN  /\ groups[g].srt_sock < 0 => n < 0
           /\ groups' = r.groups
           /\ tx' = r.tx
           /\ rx' = [NoRx EXCEPT !.kind = "srt", !.buf = buf, !.n = n, !.g = g,
                               !.err = r.err]
    /\ UNCHANGED <<now_ms, ts, last_run>>

\* the end of a reactor iteration: cleanup_inactive, then evaluate_group and
\* adjust_weights on every group, with the iteration's ts:
\* [groups, last_run, tx, recovered]
ReactorTail(gs, t, last, current_ms) ==
    LET c == cleanup_inactive(gs, t, last)
    IN  [groups   |-> [i \in 1..Len(c.groups) |->
                          adjust_weights(evaluate_group(c.groups[i], t, current_ms), t)],
         last_run |-> c.last_run,
         tx       |-> c.tx,
         recovered |-> c.recovered,
         failed   |-> c.failed]

\* the end of one reactor iteration and the start of the next one, without
\* an event: epoll_wait returns after d ms and ts is read again
ReactorTick(d) ==
    /\ \E tail \in {ReactorTail(groups, ts, last_run, now_ms)} :
           /\ groups' = tail.groups
           /\ last_run' = tail.last_run
           /\ tx' = tail.tx
           /\ rx' = [NoRx EXCEPT !.kind = "tick", !.recovered = tail.recovered,
                                 !.failed = tail.failed]
    /\ now_ms' = now_ms + d
    /\ ts' = (now_ms + d) \div 1000

\* the same with an event: after d ms a datagram is waiting on the SRTLA
\* socket and process_packet handles it with the fresh ts
ReactorRecv(d, addr, buf, env) ==
    \E tail \in {ReactorTail(groups, ts, last_run, now_ms)}, t \in {(now_ms + d) \div 1000} :
    \E r \in {process_packet(tail.groups, addr, buf, Len(buf), t, now_ms + d, env)} :
        /\ ~r.waited
        /\ groups' = r.groups
        /\ last_run' = tail.last_run
        /\ tx' = tail.tx \o r.tx
        /\ rx' = [NoRx EXCEPT !.kind = "srtla", !.addr = addr, !.buf = buf,
                              !.n = Len(buf), !.err = r.err]
        /\ now_ms' = now_ms + d
        /\ ts' = t

Bools == {TRUE, FALSE}

---------------------------------------------------------------------------
(* Lifecycle: clients register, join the groups that exist, send keepalives *)
(* and SRT packets, and the reactor cleans up as time passes.               *)

\* how many groups the clients of the model ask for
MaxModelGroups == 2

\* how many counted packets one connection receives
MaxModelPackets == 1

\* the reactor reads the clock every CLEANUP_PERIOD seconds
TickSteps == {CLEANUP_PERIOD * 1000}

Packets ==
    { KeepalivePkt,
      SrtControlPkt(SRT_TYPE_ACK, <<>>) }

\* the sender of the next counted packet has not used up its packets
WithinPacketBudget(addr, budget) ==
    LET found == find_by_address(groups, addr)
    IN  found.g # 0 /\ found.c # 0 =>
            groups[found.g].conns[found.c].stats.packets_received < budget

Next ==
    \/ \E a \in {A1, A2}, r \in RandomHalves :
          /\ Len(groups) < MaxModelGroups
          /\ RecvReg1(a, CID1, r, TRUE)
    \/ \E a \in {A1, A2}, i \in 1..Len(groups) :
          RecvReg2(a, groups[i].id, TRUE)
    \/ \E a \in {A1, A2}, b \in Packets, sock_ok \in Bools, fwd_ok \in Bools :
          /\ WithinPacketBudget(a, MaxModelPackets)
          /\ RecvPacket(a, b, TRUE, sock_ok, fwd_ok)
    \/ \E d \in TickSteps :
          /\ now_ms + d <= T0 + MaxRun
          /\ ReactorTick(d)

Spec == Init /\ [][Next]_vars

---------------------------------------------------------------------------
(* Registration: REG1 and REG2 datagrams within one second, on registries   *)
(* that earlier traffic has left behind.                                     *)

T0s == T0 \div 1000

\* clients and uplinks other than the ones that act in the model
FillerHalf(i) == Zeros(14) \o BE16(i)
FillerAddr(i) == [family |-> AF_INET6, ip |-> IP2, port |-> 6000 + i]

\* MAX_GROUPS - 1 groups, registered in this second from as many addresses,
\* that nobody has joined yet
FullRegistry ==
    [i \in 1..(MAX_GROUPS - 1) |->
        [NewGroup(FillerHalf(i), T0s, RND1) EXCEPT !.last_addr = FillerAddr(i)]]

\* one group that all but one of the uplinks it can hold have joined
CrowdedRegistry ==
    << [NewGroup(CID1, T0s, RND1) EXCEPT
          !.conns = [i \in 1..(MAX_CONNS_PER_GROUP - 1) |->
                        NewConnection(FillerAddr(i), T0s)],
          !.last_addr = FillerAddr(MAX_CONNS_PER_GROUP - 1)] >>

\* a group that A2 and then A1 joined 6 s ago: A1 fell silent and was cleaned
\* up, A2 has kept the group alive with keepalives
AgedRegistry ==
    << [NewGroup(CID1, T0s - 6, RND1) EXCEPT
          !.conns = << [NewConnection(A2, T0s - 6) EXCEPT !.last_rcvd = T0s] >>,
          !.last_addr = A1,
          !.last_quality_eval = T0s - 1] >>

RegInits == {<<>>, FullRegistry, CrowdedRegistry, AgedRegistry}

\* what an address without a connection may send besides registrations: an
\* SRT data packet, a NAK, a keepalive, a REG2 cut short
StrayPackets ==
    { SrtDataPkt(500, <<7>>),
      SrtControlPkt(SRT_TYPE_NAK, BE32(5)),
      KeepalivePkt,
      SubSeq(Reg2Pkt(CID1 \o RND1), 1, SRTLA_TYPE_REG2_LEN - 1) }

InitReg ==
    /\ groups \in RegInits
    /\ now_ms = T0
    /\ ts = T0s
    /\ last_run = T0s
    /\ rx = NoRx
    /\ tx = <<>>

NextReg ==
    \/ \E a \in {A1, A2}, c \in ClientHalves, r \in RandomHalves, ok \in Bools :
          /\ Len(groups) < MaxModelGroups \/ Len(groups) >= MAX_GROUPS - 1
          /\ RecvReg1(a, c, r, ok)
    \/ \E a \in {A1, A2}, id \in Ids, ok \in Bools : RecvReg2(a, id, ok)
    \/ \E a \in {A1, A2}, b \in StrayPackets :
          /\ find_by_address(groups, a).c = 0
          /\ RecvPacket(a, b, TRUE, TRUE, TRUE)

SpecReg == InitReg /\ [][NextReg]_vars

---------------------------------------------------------------------------
(* Acknowledgement: two uplinks of one group carry SRT data, control        *)
(* packets and keepalives.                                                   *)

\* sequence number of the first data packet of every uplink
SnBase == 16909050

\* how many data packets and how many other SRT packets an uplink carries
MaxAckPackets == 20
MaxAckControls == 1

\* data packets are 16 bytes long and the other SRT packets 17, so that the
\* counters of a connection tell how many of each it has received
AckDataPkt(sn) == SrtDataPkt(sn, <<>>)
AckControlPkt == SrtControlPkt(SRT_TYPE_ACK, <<0>>)
AckNakPkt == SrtControlPkt(SRT_TYPE_NAK, <<0>>)

\* the other SRT packet an uplink carries: a NAK on A1, an ACK on A2
AckControls(addr) == IF addr = A1 THEN {AckNakPkt} ELSE {AckControlPkt}

ControlCount(conn) == conn.stats.bytes_received - (16 * conn.stats.packets_received)
DataCount(conn) == conn.stats.packets_received - ControlCount(conn)

\* every uplink numbers its data packets SnBase, SnBase + 1, ...
ConnOf(addr) ==
    LET found == find_by_address(groups, addr)
    IN  groups[found.g].conns[found.c]

IsMember(addr) ==
    LET found == find_by_address(groups, addr)
    IN  found.g # 0 /\ found.c # 0

TwoUplinks ==
    << [NewGroup(CID1, T0s, RND1) EXCEPT
          !.conns = <<NewConnection(A1, T0s), NewConnection(A2, T0s)>>,
          !.last_addr = A2] >>

InitAck ==
    /\ groups = TwoUplinks
    /\ now_ms = T0
    /\ ts = T0s
    /\ last_run = T0s
    /\ rx = NoRx
    /\ tx = <<>>

NextAck ==
    \/ \E a \in {A1, A2}, ack_ok \in Bools, fwd_ok \in Bools :
          /\ IsMember(a)
          /\ DataCount(ConnOf(a)) < MaxAckPackets
          /\ RecvPacket(a, AckDataPkt(SnBase + DataCount(ConnOf(a))), ack_ok, TRUE, fwd_ok)
    \/ \E a \in {A1, A2}, sock_ok \in Bools : \E b \in AckControls(a) :
          /\ IsMember(a)
          /\ ControlCount(ConnOf(a)) < MaxAckControls
          /\ RecvPacket(a, b, TRUE, sock_ok, TRUE)
    \/ \E a \in {A1, A2, A3} : RecvPacket(a, KeepalivePkt, TRUE, TRUE, TRUE)
    \/ RecvPacket(A1, KeepalivePkt \o Zeros(SRT_MIN_LEN - 2), TRUE, TRUE, TRUE)

SpecAck == InitAck /\ [][NextAck]_vars

---------------------------------------------------------------------------
(* Forwarding: a group with two uplinks and a group with one exchange SRT   *)
(* packets with the SRT server.                                              *)

\* how many SRT packets an uplink carries
MaxFwdPackets == 2

A4 == [family |-> AF_INET6, ip |-> IP2, port |-> 5002]

TwoGroups ==
    TwoUplinks \o
    << [NewGroup(CID2, T0s, RND2) EXCEPT
          !.conns = <<NewConnection(A3, T0s)>>,
          !.last_addr = A3] >>

\* a data packet (sn = 500), a NAK without loss list, a keepalive, a datagram
\* shorter than an SRT header
FwdPackets ==
    { SrtDataPkt(500, <<7>>),
      SrtControlPkt(SRT_TYPE_NAK, <<>>),
      KeepalivePkt,
      <<0, 0, 1, 244>> }

\* from the SRT server: an ACK, a handshake, less than a header
SrtPackets ==
    { SrtControlPkt(SRT_TYPE_ACK, BE32(9)),
      SrtControlPkt(32768, <<>>),
      <<128, 2, 0>> }

InitFwd ==
    /\ groups = TwoGroups
    /\ now_ms = T0
    /\ ts = T0s
    /\ last_run = T0s
    /\ rx = NoRx
    /\ tx = <<>>

NextFwd ==
    \/ \E a \in {A1, A2, A3}, b \in FwdPackets :
          /\ WithinPacketBudget(a, MaxFwdPackets)
          /\ RecvPacket(a, b, TRUE, TRUE, TRUE)
    \/ RecvPacket(A4, SrtDataPkt(500, <<7>>), TRUE, TRUE, TRUE)
    \/ \E a \in {A1, A3}, sock_ok \in Bools :
          /\ WithinPacketBudget(a, MaxFwdPackets)
          /\ RecvPacket(a, SrtDataPkt(500, <<7>>), TRUE, sock_ok, ~sock_ok)
    \/ \E a \in {A1, A3}, i \in 1..Len(groups) : RecvReg2(a, groups[i].id, TRUE)
    \/ \E i \in 1..Len(groups), b \in SrtPackets : SrtReadable(i, b, Len(b))
    \/ \E i \in 1..Len(groups) : SrtReadable(i, <<>>, -1)

SpecFwd == InitFwd /\ [][NextFwd]_vars

---------------------------------------------------------------------------
(* NAKs: the two uplinks of a group carry NAKs, some of them alike, a few   *)
(* tens of milliseconds apart.                                               *)

\* how long the NAKs keep coming, in ms, and how many an uplink carries
MaxNakRun == 250
MaxNaks == 2

\* the time from one NAK to the next, in ms
NakGaps == {50, 100}

\* a loss list longer than the hashed prefix, and one that differs from it
\* behind the prefix only
LongLossList == [i \in 1..(NAK_HASH_PREFIX + 2) |-> i % 256]
LongLossListTail == [LongLossList EXCEPT ![NAK_HASH_PREFIX + 2] = 0]

\* what each uplink may send
NakPackets(addr) ==
    IF addr = A1
    THEN { SrtControlPkt(SRT_TYPE_NAK, BE32(5)),
           SrtControlPkt(SRT_TYPE_NAK, LongLossList) }
    ELSE { SrtControlPkt(SRT_TYPE_NAK, BE32(5)),
           SrtControlPkt(SRT_TYPE_NAK, LongLossListTail) }

InitNak ==
    /\ groups = TwoUplinks
    /\ now_ms = T0
    /\ ts = T0s
    /\ last_run = T0s
    /\ rx = NoRx
    /\ tx = <<>>

NextNak ==
    \E d \in NakGaps, a \in {A1, A2} : \E b \in NakPackets(a) :
        /\ now_ms + d <= T0 + MaxNakRun
        /\ WithinPacketBudget(a, MaxNaks)
        /\ ReactorRecv(d, a, b, NoEnv)

SpecNak == InitNak /\ [][NextNak]_vars

---------------------------------------------------------------------------
(* Timeouts: a group with two uplinks and a group that nobody has joined    *)
(* yet, as the seconds pass; the uplinks fall silent and speak again.        *)

\* how long the uplinks are watched, in ms
MaxCleanRun == 13000

\* the cleanup ran last in this second, or one or two seconds ago
LastRuns == {T0s - 2, T0s - 1, T0s}

\* epoll_wait returns after its timeout
EPOLL_TIMEOUT == 1000

IdleGroups ==
    TwoUplinks \o << [NewGroup(CID2, T0s, RND2) EXCEPT !.last_addr = A3] >>

InitClean ==
    /\ groups = IdleGroups
    /\ now_ms = T0
    /\ ts = T0s
    /\ last_run \in LastRuns
    /\ rx = NoRx
    /\ tx = <<>>

NextClean ==
    \/ \E a \in {A1, A2} : RecvPacket(a, KeepalivePkt, TRUE, TRUE, TRUE)
    \/ /\ IsMember(A1)
       /\ RecvReg2(A1, IdleGroups[1].id, TRUE)
    \/ /\ now_ms + EPOLL_TIMEOUT <= T0 + MaxCleanRun
       /\ ReactorTick(EPOLL_TIMEOUT)

SpecClean == InitClean /\ [][NextClean]_vars

---------------------------------------------------------------------------
(* Throttled acknowledgement: the two uplinks of a group that the load     *)
(* balancer has throttled carry SRT data while time passes.                 *)

MaxThrPackets == 20
MaxThrRun == 1000
ThrGap == 250

\* a group whose two uplinks registered 10 s ago and have sent keepalives
\* only; its last evaluation, 5 s ago, found both in their grace period
QuietUplinks ==
    << [NewGroup(CID1, T0s - CONNECTION_GRACE_PERIOD, RND1) EXCEPT
          !.conns = << [NewConnection(A1, T0s - CONNECTION_GRACE_PERIOD) EXCEPT
                          !.last_rcvd = T0s],
                       [NewConnection(A2, T0s - CONNECTION_GRACE_PERIOD) EXCEPT
                          !.last_rcvd = T0s] >>,
          !.last_addr = A2,
          !.last_quality_eval = T0s - CONN_QUALITY_EVAL_PERIOD,
          !.last_load_balance_eval = T0s - CONN_QUALITY_EVAL_PERIOD] >>

\* the same group after the reactor iteration of second T0s: the evaluation
\* has scored both uplinks and the load balancer has throttled them
ThrottledUplinks == ReactorTail(QuietUplinks, T0s, T0s, T0).groups

InitThr ==
    /\ groups = ThrottledUplinks
    /\ now_ms = T0
    /\ ts = T0s
    /\ last_run = T0s
    /\ rx = NoRx
    /\ tx = <<>>

NextThr ==
    \/ \E a \in {A1, A2}, ack_ok \in Bools :
          /\ IsMember(a)
          /\ DataCount(ConnOf(a)) < MaxThrPackets
          /\ RecvPacket(a, AckDataPkt(SnBase + DataCount(ConnOf(a))), ack_ok, TRUE, TRUE)
    \/ \E a \in {A1, A2}, ack_ok \in Bools :
          /\ IsMember(a)
          /\ DataCount(ConnOf(a)) < MaxThrPackets
          /\ now_ms + ThrGap <= T0 + MaxThrRun
          /\ ReactorRecv(ThrGap, a, AckDataPkt(SnBase + DataCount(ConnOf(a))),
                         [NoEnv EXCEPT !.ack_ok = ack_ok])

SpecThr == InitThr /\ [][NextThr]_vars

---------------------------------------------------------------------------

(* Load balancing: a group of three uplinks whose traffic of the last       *)
(* evaluation period differs is evaluated and balanced while time passes.   *)

BalT0 == T0 + 20000
BalT0s == BalT0 \div 1000
MaxBalRun == 6000

\* an SRT control packet that fills the receive buffer, and loss reports
BigPkt == SrtControlPkt(SRT_TYPE_ACK, Zeros(MTU - 16))
LossReport(i) == SrtControlPkt(SRT_TYPE_NAK, BE32(i))

\* k full-size packets, m loss reports and a keepalive
Traffic(k, m) ==
    [i \in 1..(k + m + 1) |->
        IF i <= k THEN BigPkt
        ELSE IF i <= k + m THEN LossReport(i - k)
        ELSE KeepalivePkt]

\* process_packet on each of the datagrams in turn: on the first half of
\* them, then on the second half (nothing is left to do once the registry
\* is empty)
RECURSIVE Replay(_, _, _, _)
Replay(gs, addr, pkts, current_ms) ==
    IF pkts = <<>> \/ gs = <<>> THEN gs
    ELSE IF Len(pkts) = 1
    THEN process_packet(gs, addr, pkts[1], Len(pkts[1]),
                        current_ms \div 1000, current_ms, NoEnv).groups
    ELSE LET half == Len(pkts) \div 2
         IN  Replay(Replay(gs, addr, SubSeq(pkts, 1, half), current_ms),
                    addr, SubSeq(pkts, half + 1, Len(pkts)), current_ms)

\* 5 s before the start: A1 and A2 are 10 s old and A3 is 1 s old; all have
\* sent keepalives only
BalStart ==
    << [NewGroup(CID1, BalT0s - 15, RND1) EXCEPT
          !.conns = << [NewConnection(A1, BalT0s - 15) EXCEPT !.last_rcvd = BalT0s - 5],
                       [NewConnection(A2, BalT0s - 15) EXCEPT !.last_rcvd = BalT0s - 5],
                       [NewConnection(A3, BalT0s - 6) EXCEPT !.last_rcvd = BalT0s - 5] >>,
          !.last_addr = A3,
          !.last_quality_eval = BalT0s - 10,
          !.last_load_balance_eval = BalT0s - 10] >>

\* the end of that reactor iteration: A1 and A2 are scored for the first time
BalScored == ReactorTail(BalStart, BalT0s - 5, BalT0s - 5, BalT0 - 5000).groups

\* the traffic of the 5 s since: <<full-size packets, loss reports>> of A1,
\* and the full-size packets of A2; A3 has been silent
A1Traffic == {<<0, 0>>, <<50, 0>>, <<85, 0>>, <<100, 0>>, <<160, 0>>, <<160, 10>>}
A2Traffic == {100, 160}

BalTraffic(x, k2) ==
    Replay(Replay(BalScored, A1, Traffic(x[1], x[2]), BalT0 - 1000),
           A2, Traffic(k2, 0), BalT0 - 1000)

InitBal ==
    /\ groups \in {BalTraffic(x, k2) : x \in A1Traffic, k2 \in A2Traffic}
    /\ now_ms = BalT0
    /\ ts = BalT0s
    /\ last_run \in {BalT0s - 3, BalT0s - 2}
    /\ rx = NoRx
    /\ tx = <<>>

NextBal ==
    \/ \E a \in {A1, A3} : RecvPacket(a, KeepalivePkt, TRUE, TRUE, TRUE)
    \/ /\ now_ms + EPOLL_TIMEOUT <= BalT0 + MaxBalRun
       /\ ReactorTick(EPOLL_TIMEOUT)

SpecBal == InitBal /\ [][NextBal]_vars

---------------------------------------------------------------------------
(* One slow uplink among four: three uplinks deliver about 1 Mbit/s each   *)
(* and the fourth about 50 kbit/s during one evaluation period.             *)

QualT0 == T0 + 40000
QualT0s == QualT0 \div 1000
MaxQualRun == 6000

\* when the four uplinks registered: long ago, 12 s or 6 s before QualT0s
QualAges == {30, 12, 6}

\* the full-size packets of one evaluation period: <<those of each fast
\* uplink, those of the slow one>>
QualTrafficMix == {<<400, 17>>, <<417, 21>>, <<417, 25>>}

\* the first and the last uplink send a keepalive when they have been silent
\* for this many seconds; the second uplink follows the first and the third
\* the second
KeepaliveEvery == 2

\* 5 s before the start: the uplinks have sent keepalives only
QualStart(age) ==
    << [NewGroup(CID1, QualT0s - 30, RND1) EXCEPT
          !.conns = [i \in 1..4 |->
                       [NewConnection(<<A1, A2, A3, A4>>[i], QualT0s - age)
                           EXCEPT !.last_rcvd = QualT0s - 5]],
          !.last_addr = A4,
          !.last_quality_eval = QualT0s - 10,
          !.last_load_balance_eval = QualT0s - 10] >>

\* the end of that reactor iteration
QualScored(age) == ReactorTail(QualStart(age), QualT0s - 5, QualT0s - 5, QualT0 - 5000).groups

\* the traffic of the 5 s since
RECURSIVE QualTraffic(_, _, _, _)
QualTraffic(gs, i, kf, ks) ==
    IF i = 0 THEN gs
    ELSE Replay(QualTraffic(gs, i - 1, kf, ks), <<A1, A2, A3, A4>>[i],
                Traffic(IF i = 4 THEN ks ELSE kf, 0), QualT0 - 1000)

InitQual ==
    /\ groups \in {QualTraffic(QualScored(age), 4, k[1], k[2]) :
                      age \in QualAges, k \in QualTrafficMix}
    /\ now_ms = QualT0
    /\ ts = QualT0s
    /\ last_run = QualT0s - 3
    /\ rx = NoRx
    /\ tx = <<>>

NextQual ==
    \/ \E a \in {A1, A4} :
          /\ IsMember(a) /\ ConnOf(a).last_rcvd + KeepaliveEvery <= ts
          /\ RecvPacket(a, KeepalivePkt, TRUE, TRUE, TRUE)
    \/ \E x \in {<<A1, A2>>, <<A2, A3>>} :
          /\ IsMember(x[1]) /\ IsMember(x[2])
          /\ ConnOf(x[2]).last_rcvd < ConnOf(x[1]).last_rcvd
          /\ RecvPacket(x[2], KeepalivePkt, TRUE, TRUE, TRUE)
    \/ /\ now_ms + EPOLL_TIMEOUT <= QualT0 + MaxQualRun
       /\ ReactorTick(EPOLL_TIMEOUT)

SpecQual == InitQual /\ [][NextQual]_vars

---------------------------------------------------------------------------
(* Pacing: an uplink whose throttle the load balancer has set carries SRT   *)
(* data, millisecond by millisecond.                                        *)

MaxPacePackets == 20
MaxPaceRun == 182

\* the time between two datagrams, in ms
PaceGaps == {1, 180}

\* the reactor iteration of second BalT0s has scored A1 and A2 and set their
\* throttles; A3 is gone
PacedUplinks(x) == ReactorTail(BalTraffic(x, 160), BalT0s, BalT0s - 3, BalT0).groups

\* the uplink numbers its data packets SnBase, SnBase + 1, ...: the number
\* after the one it has logged last
PaceNextSn(conn) ==
    LET last == IF conn.recv_idx > 0 THEN conn.recv_log[conn.recv_idx]
                ELSE conn.recv_log[RECV_ACK_INT]
    IN  IF last = <<0, 0, 0, 0>> THEN SnBase ELSE FromBE32(last) + 1

InitPace ==
    /\ groups \in {PacedUplinks(x) : x \in A1Traffic}
    /\ now_ms = BalT0
    /\ ts = BalT0s
    /\ last_run = BalT0s
    /\ rx = NoRx
    /\ tx = <<>>

NextPace ==
    \/ /\ IsMember(A1)
       /\ PaceNextSn(ConnOf(A1)) < SnBase + MaxPacePackets
       /\ RecvPacket(A1, AckDataPkt(PaceNextSn(ConnOf(A1))), TRUE, TRUE, TRUE)
    \/ \E d \in PaceGaps :
          /\ IsMember(A1)
          /\ PaceNextSn(ConnOf(A1)) < SnBase + MaxPacePackets
          /\ now_ms + d <= BalT0 + MaxPaceRun
          /\ ReactorRecv(d, A1, AckDataPkt(PaceNextSn(ConnOf(A1))), NoEnv)

SpecPace == InitPace /\ [][NextPace]_vars

---------------------------------------------------------------------------
(* Evaluation period: an uplink reports loss after loss while the seconds   *)
(* pass, so that both the reactor and the data path ask for an evaluation.  *)

MaxEvalRun == 6000
MaxEvalNaks == 7

\* the time from one event to the next, in ms
EvalGaps == {200, 1000}

InitEval ==
    /\ groups = TwoUplinks
    /\ now_ms = T0
    /\ ts = T0s
    /\ last_run = T0s
    /\ rx = NoRx
    /\ tx = <<>>

NextEval ==
    \/ \E d \in EvalGaps :
          /\ now_ms + d <= T0 + MaxEvalRun
          /\ IsMember(A1)
          /\ ConnOf(A1).stats.packets_received < MaxEvalNaks
          /\ ReactorRecv(d, A1, LossReport(ConnOf(A1).stats.packets_received + 1), NoEnv)
    \/ /\ now_ms + EPOLL_TIMEOUT <= T0 + MaxEvalRun
       /\ ReactorTick(EPOLL_TIMEOUT)

SpecEval == InitEval /\ [][NextEval]_vars

---------------------------------------------------------------------------
(* The event loop of main: epoll_wait returns a batch of readiness events; *)
(* they are dispatched one after the other, then the iteration ends with    *)
(* the cleanup, the evaluation and the balancing.                            *)

\* an event of the batch.  For the SRTLA socket (data.ptr == nullptr): the
\* datagram that recvfrom returns and what the environment decides.  For an
\* SRT socket: ptr stands for data.ptr, the group object that was registered
\* with the socket fd; what recv returns; and stale_id, what raw_group->id()
\* reads if the object has been freed (undefined behaviour: any id).
SrtlaEvent(addr, buf, env) ==
    [kind |-> "srtla", addr |-> addr, buf |-> buf, n |-> Len(buf), env |-> env,
     ptr |-> [id |-> <<>>, fd |-> -1], stale_id |-> <<>>]

SrtEvent(group, buf, n, stale_id) ==
    [kind |-> "srt", addr |-> NullAddr, buf |-> buf, n |-> n, env |-> NoEnv,
     ptr |-> [id |-> group.id, fd |-> group.srt_sock], stale_id |-> stale_id]

\* the group object that ptr points to is still in the registry
PtrAlive(gs, ptr) ==
    \E i \in 1..Len(gs) : gs[i].id = ptr.id /\ gs[i].srt_sock = ptr.fd

\* the body of the for loop without the test that follows it:
\* [groups, tx, alive, target]; target is the group handle_srt_data was
\* called for, as [id, fd], fd = -1 if it was not called
dispatch_event(gs, ev, t, current_ms) ==
    IF ev.kind = "srtla"
    THEN LET r == process_packet(gs, ev.addr, ev.buf, ev.n, t, current_ms, ev.env)
         IN  [groups |-> r.groups, tx |-> r.tx, alive |-> TRUE,
              target |-> [id |-> <<>>, fd |-> -1]]
    ELSE LET alive  == PtrAlive(gs, ev.ptr)
             raw_id == IF alive THEN ev.ptr.id ELSE ev.stale_id
             g      == find_group_by_id(gs, raw_id)
         IN  IF g = 0
             THEN [groups |-> gs, tx |-> <<>>, alive |-> alive,
                   target |-> [id |-> <<>>, fd |-> -1]]
             ELSE LET r == handle_srt_data(gs, g, ev.buf, ev.n)
                  IN  [groups |-> r.groups, tx |-> r.tx, alive |-> alive,
                       target |-> [id |-> gs[g].id, fd |-> gs[g].srt_sock]]

\* a loop that goes on whatever happens to the group count
batch_broken_never(gs, group_cnt) == FALSE

\* if (registry.groups().size() < group_cnt) break;
batch_broken(gs, group_cnt) == Len(gs) < group_cnt

\* the for loop over the events: [groups, tx, handled]; handled has a record
\* for each event the loop has looked at
RECURSIVE dispatch_events(_, _, _, _)
dispatch_rest(r, ev, group_cnt, events, t, current_ms) ==
    LET rec == [kind |-> ev.kind, ptr |-> ev.ptr, alive |-> r.alive, target |-> r.target,
                shrank |-> Len(r.groups) < group_cnt]
    IN  IF batch_broken(r.groups, group_cnt)
        THEN [groups |-> r.groups, tx |-> r.tx, handled |-> <<rec>>]
        ELSE LET rest == dispatch_events(r.groups, events, t, current_ms)
             IN  [groups |-> rest.groups, tx |-> r.tx \o rest.tx,
                  handled |-> <<rec>> \o rest.handled]

dispatch_events(gs, events, t, current_ms) ==
    IF events = <<>> THEN [groups |-> gs, tx |-> <<>>, handled |-> <<>>]
    ELSE dispatch_rest(dispatch_event(gs, Head(events), t, current_ms), Head(events),
                       Len(gs), Tail(events), t, current_ms)

\* one iteration of the loop of main: epoll_wait returns the events after
\* d ms, ts is read, the events are dispatched and the iteration ends
ReactorBatch(d, events) ==
    \E t \in {(now_ms + d) \div 1000} :
    \E r \in {dispatch_events(groups, events, t, now_ms + d)} :
    \E tail \in {ReactorTail(r.groups, t, last_run, now_ms + d)} :
        /\ groups' = tail.groups
        /\ last_run' = tail.last_run
        /\ tx' = r.tx \o tail.tx
        /\ rx' = [NoRx EXCEPT !.kind = "batch", !.events = events, !.handled = r.handled,
                              !.recovered = tail.recovered, !.failed = tail.failed]
        /\ now_ms' = now_ms + d
        /\ ts' = t

MaxBatchRun == 300
MaxBatchEvents == 3
BatchGap == 100

\* two groups whose uplinks A1 and A3 have sent a data packet each, so that
\* both have their SRT socket
BatchGroups ==
    Replay(Replay(TwoGroups, A1, <<SrtDataPkt(500, <<7>>)>>, T0),
           A3, <<SrtDataPkt(500, <<7>>)>>, T0)

\* what may be ready: a datagram on the SRTLA socket (one that is forwarded,
\* one whose forwarding fails, a keepalive), and on the SRT socket of a
\* group an ACK or a failed read
ReadyEvents(gs) ==
    { SrtlaEvent(A1, SrtDataPkt(501, <<7>>), [NoEnv EXCEPT !.fwd_ok = FALSE]),
      SrtlaEvent(A3, SrtDataPkt(501, <<7>>), NoEnv),
      SrtlaEvent(A2, KeepalivePkt, NoEnv) }
    \cup { SrtEvent(gs[i], b, Len(b), gs[j].id) :
              i \in {k \in 1..Len(gs) : gs[k].srt_sock >= 0}, j \in 1..Len(gs),
              b \in {SrtControlPkt(SRT_TYPE_ACK, BE32(9))} }
    \cup { SrtEvent(gs[i], <<>>, -1, gs[j].id) :
              i \in {k \in 1..Len(gs) : gs[k].srt_sock >= 0}, j \in 1..Len(gs) }

\* epoll_wait reports each socket once
Batches(gs) ==
    { s \in UNION { [1..k -> ReadyEvents(gs)] : k \in 1..MaxBatchEvents } :
        \A x \in 1..Len(s), y \in 1..Len(s) :
            x # y => (s[x].kind # s[y].kind \/ (s[x].kind = "srt" /\ s[x].ptr # s[y].ptr)) }

InitBatch ==
    /\ groups = BatchGroups
    /\ now_ms = T0
    /\ ts = T0s
    /\ last_run = T0s
    /\ rx = NoRx
    /\ tx = <<>>

NextBatch ==
    \E events \in Batches(groups) :
        /\ now_ms + BatchGap <= T0 + MaxBatchRun
        /\ ReactorBatch(BatchGap, events)

SpecBatch == InitBatch /\ [][NextBatch]_vars

---------------------------------------------------------------------------

(* Keepalives: the two uplinks of a group, and a stranger, send keepalives  *)
(* with and without telemetry, half a second apart.                         *)

\* how long the keepalives keep coming, in ms, and the time between two
MaxTelRun == 2000
TelGap == 500

\* htobe32 of an int32_t
BE32s(v) ==
    IF v >= 0 THEN BE32(v)
    ELSE [BE32((v + 2147483647) + 1) EXCEPT ![1] = @ + 128]

\* an extended keepalive as a sender builds it: type, 8 reserved bytes,
\* magic, version, conn_id, window, in_flight, rtt (8 bytes), nak_count,
\* bitrate
ExtKeepalive(magic, version, window, in_flight, rtt, nak_count) ==
    BE16(SRTLA_TYPE_KEEPALIVE) \o Zeros(8) \o BE16(magic) \o BE16(version)
        \o BE32(7) \o BE32s(window) \o BE32s(in_flight)
        \o Zeros(4) \o BE32(rtt) \o BE32(nak_count) \o BE32(125000)

GoodKeepalive(window, in_flight, rtt, nak_count) ==
    ExtKeepalive(SRTLA_KEEPALIVE_MAGIC, SRTLA_KEEPALIVE_EXT_VERSION,
                 window, in_flight, rtt, nak_count)

\* plain keepalives of 2 and of 10 bytes; extended ones, one of them with a
\* negative window and one followed by two more bytes; malformed ones: the
\* last byte missing, another magic, another version
TelPackets ==
    { KeepalivePkt,
      KeepalivePkt \o Zeros(8),
      GoodKeepalive(100, 100, 600, 0),
      GoodKeepalive(-1, 50, 150, 5),
      GoodKeepalive(100, 20, 0, 5) \o <<1, 2>>,
      SubSeq(GoodKeepalive(100, 100, 600, 0), 1, SRTLA_KEEPALIVE_EXT_LEN - 1),
      ExtKeepalive(SRTLA_KEEPALIVE_MAGIC + 1, SRTLA_KEEPALIVE_EXT_VERSION, 100, 100, 600, 0),
      ExtKeepalive(SRTLA_KEEPALIVE_MAGIC, SRTLA_KEEPALIVE_EXT_VERSION + 1, 100, 100, 600, 0) }

InitTel ==
    /\ groups = TwoUplinks
    /\ now_ms = T0
    /\ ts = T0s
    /\ last_run = T0s
    /\ rx = NoRx
    /\ tx = <<>>

NextTel ==
    \E a \in {A1, A2, A3}, b \in TelPackets :
        /\ now_ms + TelGap <= T0 + MaxTelRun
        /\ ReactorRecv(TelGap, a, b, NoEnv)

SpecTel == InitTel /\ [][NextTel]_vars

(* Properties *)

\* every connection of the registry, as <<group index, connection index>>
AllConns == {gc \in (1..Len(groups)) \X (1..MAX_CONNS_PER_GROUP) :
                gc[2] <= Len(groups[gc[1]].conns)}

PeerOf(gc) == groups[gc[1]].conns[gc[2]].addr

SameAddress(a, b) == a.family = b.family /\ a.ip = b.ip /\ a.port = b.port

\* the single datagram the last handler sent on the SRTLA socket, if it has type
RepliedWith(type) ==
    /\ Len(tx) = 1
    /\ tx[1].sock = SRTLA_SOCK
    /\ tx[1].to = rx.addr
    /\ Len(tx[1].buf) >= 2
    /\ SubSeq(tx[1].buf, 1, 2) = BE16(type)

\* C1: in every reachable state of the registry no two connections, of one
\* group or of two, have the same peer address (family, IP, port).
C1_NoSharedPeerAddress ==
    \A x \in AllConns, y \in AllConns :
        x # y => ~SameAddress(PeerOf(x), PeerOf(y))

\* two groups have connections, and a REG2 by which a member of one asked to
\* join the other has just been refused
C1_Witness ==
    /\ Len(groups) = 2
    /\ groups[1].conns # <<>> /\ groups[2].conns # <<>>
    /\ rx.kind = "srtla" /\ is_srtla_reg2(rx.buf, rx.n)
    /\ \E x \in AllConns :
          /\ SameAddress(PeerOf(x), rx.addr)
          /\ groups[x[1]].id # SubSeq(rx.buf, 3, 2 + SRTLA_ID_LEN)
    /\ RepliedWith(SRTLA_TYPE_REG_ERR)

\* the last step handled a REG1 / a REG2 datagram
Reg1Handled == rx.kind = "srtla" /\ is_srtla_reg1(rx.buf, rx.n)
Reg2Handled == rx.kind = "srtla" /\ is_srtla_reg2(rx.buf, rx.n)

\* the body of the last datagram: the client's half of an id, or a whole id
RxBody == SubSeq(rx.buf, 3, rx.n)

\* group g owns the address: a connection of g has it, or g's last_address is it
Owns(g, addr) ==
    \/ \E c \in 1..Len(groups[g].conns) : SameAddress(groups[g].conns[c].addr, addr)
    \/ SameAddress(groups[g].last_addr, addr)

\* the group find_by_address resolves the address to: the first that owns it
OwnersOf(addr) == {g \in 1..Len(groups) : Owns(g, addr)}

HasConnection(addr) == \E x \in AllConns : SameAddress(PeerOf(x), addr)

\* the groups whose 32-byte id is the one given
GroupsWithId(id) == {g \in 1..Len(groups) : groups[g].id = id}

\* C2 as the specification states it: REG1 is refused with REG_ERR, and no
\* group is created, when the registry holds MAX_GROUPS groups or the sender's
\* address is owned; otherwise exactly one group is added, whose id starts
\* with the REG1 body, and REG2 with the whole id goes to the sender.
C2_Reg1AlwaysAddsGroup ==
    [][ Reg1Handled' =>
          IF Len(groups) >= MAX_GROUPS \/ OwnersOf(rx'.addr) # {}
          THEN RepliedWith(SRTLA_TYPE_REG_ERR)' /\ Len(groups') = Len(groups)
          ELSE /\ Len(groups') = Len(groups) + 1
               /\ SubSeq(groups', 1, Len(groups)) = groups
               /\ SubSeq(groups'[Len(groups')].id, 1, SRTLA_ID_LEN \div 2) = RxBody'
               /\ RepliedWith(SRTLA_TYPE_REG2)'
               /\ tx'[1].buf = BE16(SRTLA_TYPE_REG2) \o groups'[Len(groups')].id
      ]_vars

\* C2, amended: REG1 is refused with REG_ERR, and no group is created, when
\* the registry holds MAX_GROUPS groups or the sender's address is owned;
\* otherwise REG2 with a 32-byte id that starts with the REG1 body goes to the
\* sender, and exactly one group, with that id, is added if that send
\* succeeded and none if it failed.
C2_Reg1Outcome ==
    [][ Reg1Handled' =>
          IF Len(groups) >= MAX_GROUPS \/ OwnersOf(rx'.addr) # {}
          THEN RepliedWith(SRTLA_TYPE_REG_ERR)' /\ Len(groups') = Len(groups)
          ELSE /\ RepliedWith(SRTLA_TYPE_REG2)'
               /\ Len(tx'[1].buf) = 2 + SRTLA_ID_LEN
               /\ SubSeq(tx'[1].buf, 3, 2 + (SRTLA_ID_LEN \div 2)) = RxBody'
               /\ IF tx'[1].ret
                  THEN /\ Len(groups') = Len(groups) + 1
                       /\ SubSeq(groups', 1, Len(groups)) = groups
                       /\ groups'[Len(groups')].id = SubSeq(tx'[1].buf, 3, 2 + SRTLA_ID_LEN)
                  ELSE groups' = groups
      ]_vars

\* a REG1 has just taken the last free place of the registry
C2_Witness ==
    /\ Reg1Handled
    /\ RepliedWith(SRTLA_TYPE_REG2) /\ tx[1].ret
    /\ Len(groups) = MAX_GROUPS
    /\ groups[MAX_GROUPS].id = SubSeq(tx[1].buf, 3, 2 + SRTLA_ID_LEN)
    /\ SubSeq(groups[MAX_GROUPS].id, 1, SRTLA_ID_LEN \div 2) = RxBody

\* C3: REG2 is answered REG_NGP exactly when no group has the 32-byte id of
\* the datagram; an id that agrees with a group's id in the first half only
\* is answered REG_NGP and not REG3.
C3_NgpIffNoFullId ==
    [][ Reg2Handled' =>
          /\ RepliedWith(SRTLA_TYPE_REG_NGP)' <=> GroupsWithId(RxBody') = {}
          /\ GroupsWithId(RxBody') = {} => ~RepliedWith(SRTLA_TYPE_REG3)'
      ]_vars

\* a REG2 whose id has a group's first half and another second half has
\* been answered REG_NGP
C3_Witness ==
    /\ Reg2Handled
    /\ \E g \in 1..Len(groups) :
          /\ SubSeq(groups[g].id, 1, SRTLA_ID_LEN \div 2)
                = SubSeq(RxBody, 1, SRTLA_ID_LEN \div 2)
          /\ groups[g].id # RxBody
    /\ GroupsWithId(RxBody) = {}
    /\ RepliedWith(SRTLA_TYPE_REG_NGP)

\* the group a REG2 names: the first one with the id of the datagram
NamedGroup(id) ==
    IF GroupsWithId(id) = {} THEN 0 ELSE Min(GroupsWithId(id))

\* the first group that owns the address, 0 if none does
OwnerOf(addr) == IF OwnersOf(addr) = {} THEN 0 ELSE Min(OwnersOf(addr))

\* C4: a REG2 that names an existing group G is answered REG_ERR if the
\* sender's address belongs to another group, or if it has no connection and
\* G holds MAX_CONNS_PER_GROUP connections; otherwise it is answered REG3, and
\* G gets a new connection for the address only if the address had none: a
\* REG2 from a member adds no second connection.
C4_Reg2Outcome ==
    [][ (Reg2Handled' /\ NamedGroup(RxBody') # 0) =>
          LET G     == NamedGroup(RxBody')
              addr  == rx'.addr
              other == OwnerOf(addr) # 0 /\ OwnerOf(addr) # G
              full  == ~HasConnection(addr)
                          /\ Len(groups[G].conns) >= MAX_CONNS_PER_GROUP
          IN  IF other \/ full
              THEN RepliedWith(SRTLA_TYPE_REG_ERR)'
              ELSE /\ RepliedWith(SRTLA_TYPE_REG3)'
                   /\ Len(groups') = Len(groups)
                   /\ \A g \in 1..Len(groups) :
                         g # G => groups'[g].conns = groups[g].conns
                   /\ \/ groups'[G].conns = groups[G].conns
                      \/ /\ ~HasConnection(addr)
                         /\ Len(groups'[G].conns) = Len(groups[G].conns) + 1
                         /\ SubSeq(groups'[G].conns, 1, Len(groups[G].conns))
                               = groups[G].conns
                         /\ SameAddress(groups'[G].conns[Len(groups'[G].conns)].addr, addr)
                   /\ HasConnection(addr) => groups'[G].conns = groups[G].conns
      ]_vars

\* a group holds MAX_CONNS_PER_GROUP connections and a REG2 for it from an
\* address that is not among them has been refused
C4_Witness ==
    /\ Reg2Handled
    /\ NamedGroup(RxBody) # 0
    /\ Len(groups[NamedGroup(RxBody)].conns) = MAX_CONNS_PER_GROUP
    /\ ~HasConnection(rx.addr)
    /\ RepliedWith(SRTLA_TYPE_REG_ERR)

\* C5: a REG1 or REG2 that is answered REG_ERR or REG_NGP changes nothing:
\* the groups, their connection lists and last_address, and all fields of all
\* connections are the same after the datagram as before.
C5_RejectionKeepsState ==
    [][ ( /\ Reg1Handled' \/ Reg2Handled'
          /\ RepliedWith(SRTLA_TYPE_REG_ERR)' \/ RepliedWith(SRTLA_TYPE_REG_NGP)' )
        => groups' = groups /\ last_run' = last_run
      ]_vars

\* a REG1 from an address that a group with connections owns has been refused
C5_Witness ==
    /\ Reg1Handled
    /\ RepliedWith(SRTLA_TYPE_REG_ERR)
    /\ OwnerOf(rx.addr) # 0
    /\ groups[OwnerOf(rx.addr)].conns # <<>>

\* the four bytes of v, most significant first
BigEndian(v) == <<v \div 16777216, (v \div 65536) % 256, (v \div 256) % 256, v % 256>>

\* the datagram is an SRT data packet: a whole header, top bit clear
IsData(buf) == Len(buf) >= SRT_MIN_LEN /\ buf[1] < 128

IsSrtlaAck(m) ==
    m.sock = SRTLA_SOCK /\ Len(m.buf) >= 2 /\ SubSeq(m.buf, 1, 2) = BE16(SRTLA_TYPE_ACK)

\* the SRTLA ACK that reports the data packets first .. first + RECV_ACK_INT - 1
RECURSIVE AckEntries(_, _)
AckEntries(first, count) ==
    IF count = 0 THEN <<>>
    ELSE BigEndian(first) \o AckEntries(first + 1, count - 1)

Unthrottled(conn) == conn.stats.ack_throttle_factor = [num |-> 1, den |-> 1]

\* C6: when an unthrottled connection receives its k-th SRT data packet
\* (sequence number >= 0) and k is a multiple of ten, exactly one SRTLA ACK is
\* sent, to that connection's address, with the big-endian sequence numbers
\* of the packets k-9 .. k in arrival order; any other datagram is followed
\* by no SRTLA ACK.
C6_AckAfterEveryTenth ==
    [][ IF /\ rx'.kind = "srtla" /\ IsData(rx'.buf) /\ HasConnection(rx'.addr)
        THEN \A x \in AllConns :
                LET conn == groups[x[1]].conns[x[2]]
                    k    == DataCount(conn) + 1
                    acks == SelectSeq(tx', IsSrtlaAck)
                IN  (SameAddress(conn.addr, rx'.addr) /\ Unthrottled(conn)) =>
                       IF k % RECV_ACK_INT = 0
                       THEN /\ Len(acks) = 1
                            /\ SameAddress(acks[1].to, conn.addr)
                            /\ acks[1].buf =
                                  BE16(SRTLA_TYPE_ACK) \o <<0, 0>>
                                     \o AckEntries(SnBase + k - RECV_ACK_INT, RECV_ACK_INT)
                       ELSE acks = <<>>
        ELSE SelectSeq(tx', IsSrtlaAck) = <<>>
      ]_vars

\* the twentieth data packet of A1 has been acknowledged while A2 is in the
\* middle of a batch
C6_Witness ==
    /\ rx.kind = "srtla" /\ IsData(rx.buf) /\ SameAddress(rx.addr, A1)
    /\ \E x \in AllConns, y \in AllConns :
          /\ SameAddress(PeerOf(x), A1) /\ SameAddress(PeerOf(y), A2)
          /\ DataCount(groups[x[1]].conns[x[2]]) = 2 * RECV_ACK_INT
          /\ DataCount(groups[y[1]].conns[y[2]]) = 5
    /\ Len(SelectSeq(tx, IsSrtlaAck)) = 1
    /\ SubSeq(tx[1].buf, 5, 8) = BigEndian(SnBase + RECV_ACK_INT)

\* what the last handler sent to the SRT server
IsSrtSend(m) == m.sock # SRTLA_SOCK
SrtSends == SelectSeq(tx, IsSrtSend)

IsNak(buf) == Len(buf) >= SRT_MIN_LEN /\ SubSeq(buf, 1, 2) = BE16(SRT_TYPE_NAK)
IsKeepalive(buf) == Len(buf) >= 2 /\ SubSeq(buf, 1, 2) = BE16(SRTLA_TYPE_KEEPALIVE)
IsRegistration(buf) ==
    \/ Len(buf) = SRTLA_TYPE_REG1_LEN /\ SubSeq(buf, 1, 2) = BE16(SRTLA_TYPE_REG1)
    \/ Len(buf) = SRTLA_TYPE_REG2_LEN /\ SubSeq(buf, 1, 2) = BE16(SRTLA_TYPE_REG2)

\* the group of the member that has the address
GroupOf(addr) == CHOOSE g \in 1..Len(groups) :
                    \E c \in 1..Len(groups[g].conns) :
                        SameAddress(groups[g].conns[c].addr, addr)

\* the NAK cache of group g holds the payload of buf and tells to drop it at
\* time t
SuppressedNak(g, buf, t) ==
    LET cache == groups[g].nak_cache
        hash  == hash_nak_payload(buf, Len(buf), NAK_HASH_PREFIX)
    IN  /\ IsNak(buf)
        /\ hash \in DOMAIN cache
        /\ \/ t < cache[hash].timestamp_ms
           \/ t - cache[hash].timestamp_ms < SUPPRESS_MS
           \/ cache[hash].repeat_count >= MAX_REPEATS

\* the last handler sent the datagram buf, once, on the SRT socket of the
\* group that was number g before, and nothing else to the SRT server
ForwardedOnce(g, buf) ==
    /\ Len(SrtSends') = 1
    /\ SrtSends'[1].buf = buf
    /\ groups[g].srt_sock >= 0 => SrtSends'[1].sock = groups[g].srt_sock
    /\ \A i \in 1..Len(groups) : i # g => SrtSends'[1].sock # groups[i].srt_sock

\* C7 as the specification states it: every datagram of SRT_MIN_LEN bytes or
\* more from a registered connection that is neither a keepalive nor a
\* suppressed duplicate NAK is sent to the SRT server on its group's socket,
\* once and at once, and nothing else is sent there: what the server gets
\* from a group is what the group's uplinks got, in arrival order.
C7_ForwardsAllButKeepalivesAndNaks ==
    [][ IF /\ rx'.kind = "srtla" /\ HasConnection(rx'.addr)
           /\ rx'.n >= SRT_MIN_LEN
           /\ ~IsKeepalive(rx'.buf)
           /\ ~SuppressedNak(GroupOf(rx'.addr), rx'.buf, now_ms')
        THEN ForwardedOnce(GroupOf(rx'.addr), rx'.buf)
        ELSE SrtSends' = <<>>
      ]_vars

\* C7, amended: every datagram of SRT_MIN_LEN bytes or more from a
\* registered connection that is neither a REG1 or REG2, nor a keepalive, nor
\* a suppressed duplicate NAK is sent to the SRT server on its group's socket,
\* once and at once -- unless the group has no SRT socket yet and none can be
\* set up: then the datagram is not sent and the group is removed.  Nothing
\* else is sent to the SRT server.
C7_ForwardsInArrivalOrder ==
    [][ IF /\ rx'.kind = "srtla" /\ HasConnection(rx'.addr)
           /\ rx'.n >= SRT_MIN_LEN
           /\ ~IsRegistration(rx'.buf)
           /\ ~IsKeepalive(rx'.buf)
           /\ ~SuppressedNak(GroupOf(rx'.addr), rx'.buf, now_ms')
        THEN \/ ForwardedOnce(GroupOf(rx'.addr), rx'.buf)
             \/ /\ groups[GroupOf(rx'.addr)].srt_sock < 0
                /\ SrtSends' = <<>>
                /\ Len(groups') = Len(groups) - 1
                /\ \A i \in 1..Len(groups') : groups'[i].id # groups[GroupOf(rx'.addr)].id
        ELSE SrtSends' = <<>>
      ]_vars

\* the data packet that A1 has sent before has now come from A2, on the
\* other uplink of the group, and has been forwarded again
C7_Witness ==
    /\ rx.kind = "srtla" /\ SameAddress(rx.addr, A2) /\ rx.buf = SrtDataPkt(500, <<7>>)
    /\ Len(SrtSends) = 1 /\ SrtSends[1].buf = rx.buf /\ SrtSends[1].ret
    /\ \E x \in AllConns :
          /\ SameAddress(PeerOf(x), A1)
          /\ groups[x[1]].conns[x[2]].stats.packets_received = 1
          /\ groups[x[1]].conns[x[2]].stats.bytes_received = Len(rx.buf)
          /\ groups[x[1]].srt_sock = SrtSends[1].sock

\* C10: a datagram of SRT_MIN_LEN bytes or more read from a group's SRT
\* socket is sent, if it is an SRT ACK, once to the address of every
\* connection of the group, and otherwise once, to the group's last_address.
C10_SrtFanOut ==
    [][ (rx'.kind = "srt" /\ rx'.n >= SRT_MIN_LEN) =>
          LET group == groups[rx'.g]
              data  == SubSeq(rx'.buf, 1, rx'.n)
          IN  /\ \A i \in 1..Len(tx') : tx'[i].sock = SRTLA_SOCK /\ tx'[i].buf = data
              /\ IF SubSeq(data, 1, 2) = BE16(SRT_TYPE_ACK)
                 THEN /\ Len(tx') = Len(group.conns)
                      /\ \A c \in 1..Len(group.conns) :
                            Cardinality({i \in 1..Len(tx') :
                                SameAddress(tx'[i].to, group.conns[c].addr)}) = 1
                 ELSE /\ Len(tx') = 1
                      /\ tx'[1].to = group.last_addr
      ]_vars

\* an SRT ACK from the server has gone to both uplinks of a group whose
\* last_address is one of them
C10_Witness ==
    /\ rx.kind = "srt" /\ rx.n >= SRT_MIN_LEN
    /\ SubSeq(rx.buf, 1, 2) = BE16(SRT_TYPE_ACK)
    /\ rx.g \in 1..Len(groups)
    /\ Len(groups[rx.g].conns) = 2
    /\ Len(tx) = 2
    /\ ~SameAddress(tx[1].to, tx[2].to)
    /\ \E i \in 1..2 : SameAddress(tx[i].to, groups[rx.g].last_addr)

\* the last datagram was a NAK from a member of a group
NakHandled == rx.kind = "srtla" /\ IsNak(rx.buf) /\ HasConnection(rx.addr)

\* the last datagram went to the SRT server
Forwarded == Len(SrtSends) = 1 /\ SrtSends[1].buf = rx.buf

\* what the de-duplicator looks at: the payload from offset 16, 128 bytes of it
NakPayload(buf) ==
    SubSeq(buf, SRT_MIN_LEN + 1,
           IF Len(buf) > SRT_MIN_LEN + NAK_HASH_PREFIX
           THEN SRT_MIN_LEN + NAK_HASH_PREFIX ELSE Len(buf))

\* two NAKs in a row, alike, on uplinks of one group, less than SUPPRESS_MS apart
NakPair ==
    /\ NakHandled /\ NakHandled'
    /\ GroupOf(rx.addr) = GroupOf(rx'.addr)
    /\ NakPayload(rx.buf) = NakPayload(rx'.buf)
    /\ now_ms' - now_ms < SUPPRESS_MS

\* C8 as the specification states it: of two NAKs with the same payload
\* (first 128 bytes from offset 16) that arrive within 100 ms on connections
\* of one group, the first reaches the SRT server and the second is dropped.
C8_OnlyFirstNakForwarded ==
    [][ NakPair => Forwarded /\ ~Forwarded' ]_vars

\* C8, amended: of two NAKs with the same payload (first 128 bytes from
\* offset 16) that arrive within 100 ms on connections of one group, at most
\* one reaches the SRT server: the second is dropped if the first was
\* forwarded.  Whatever came in between, a NAK that arrives less than 100 ms
\* after the last forwarded NAK with its payload is dropped.
C8_AtMostOneNakInWindow ==
    [][ /\ NakPair => (Forwarded => ~Forwarded')
        /\ NakHandled' =>
             LET g     == GroupOf(rx'.addr)
                 hash  == hash_nak_payload(rx'.buf, rx'.n, NAK_HASH_PREFIX)
                 cache == groups[g].nak_cache
             IN  /\ Forwarded' => groups'[g].nak_cache[hash].timestamp_ms = now_ms'
                 /\ ~Forwarded' => groups'[g].nak_cache = cache
                 /\ (hash \in DOMAIN cache
                        /\ now_ms' - cache[hash].timestamp_ms < SUPPRESS_MS)
                       => ~Forwarded'
      ]_vars

\* a NAK that A1 has sent and that was forwarded has come again, from A2,
\* less than 100 ms later, with another tail behind the first 128 bytes of
\* its loss list, and has been dropped
C8_Witness ==
    /\ NakHandled /\ SameAddress(rx.addr, A2) /\ ~Forwarded
    /\ rx.buf = SrtControlPkt(SRT_TYPE_NAK, LongLossListTail)
    /\ LET cache == groups[GroupOf(A2)].nak_cache
           hash  == hash_nak_payload(rx.buf, rx.n, NAK_HASH_PREFIX)
       IN  /\ hash \in DOMAIN cache
           /\ now_ms - cache[hash].timestamp_ms < SUPPRESS_MS
           /\ cache[hash].repeat_count = 0
    /\ \E x \in AllConns :
          /\ SameAddress(PeerOf(x), A1)
          /\ groups[x[1]].conns[x[2]].stats.packets_lost = 1

\* the NAKs group g has accepted: on_nak_detected counts each on its connection
RECURSIVE SumLost(_)
SumLost(conns) ==
    IF conns = <<>> THEN 0 ELSE Head(conns).stats.packets_lost + SumLost(Tail(conns))

RECURSIVE SumAccepted(_, _)
SumAccepted(cache, hashes) ==
    IF hashes = {} THEN 0
    ELSE LET h == CHOOSE x \in hashes : TRUE
         IN  cache[h].repeat_count + 1 + SumAccepted(cache, hashes \ {h})

\* C9: the first NAK with some hash is accepted and entered in the cache
\* with count 0; a later one is rejected, and the cache left alone, if it
\* comes before the stored time, or less than SUPPRESS_MS after it, or when
\* the count has reached MAX_REPEATS; otherwise it is accepted, the time is
\* set and the count incremented.  So the third NAK with a hash is rejected
\* whenever it comes, and no more than two are ever accepted.
C9_ShouldAcceptNak ==
    [][ NakHandled' =>
          LET g     == GroupOf(rx'.addr)
              hash  == hash_nak_payload(rx'.buf, rx'.n, NAK_HASH_PREFIX)
              cache == groups[g].nak_cache
              after == groups'[g].nak_cache
          IN  /\ IF hash \notin DOMAIN cache
                 THEN /\ Forwarded'
                      /\ DOMAIN after = DOMAIN cache \cup {hash}
                      /\ after[hash] = [timestamp_ms |-> now_ms', repeat_count |-> 0]
                      /\ \A h \in DOMAIN cache : after[h] = cache[h]
                 ELSE IF \/ now_ms' < cache[hash].timestamp_ms
                         \/ now_ms' - cache[hash].timestamp_ms < SUPPRESS_MS
                         \/ cache[hash].repeat_count >= MAX_REPEATS
                 THEN ~Forwarded' /\ after = cache
                 ELSE /\ Forwarded'
                      /\ DOMAIN after = DOMAIN cache
                      /\ after[hash] = [timestamp_ms |-> now_ms',
                                        repeat_count |-> cache[hash].repeat_count + 1]
                      /\ \A h \in DOMAIN cache : h # hash => after[h] = cache[h]
              /\ \A h \in DOMAIN after : after[h].repeat_count <= MAX_REPEATS
              /\ SumLost(groups'[g].conns) = SumAccepted(after, DOMAIN after)
      ]_vars

\* the third NAK with a hash, SUPPRESS_MS or more after the second, has been
\* rejected
C9_Witness ==
    /\ NakHandled /\ ~Forwarded
    /\ LET cache == groups[GroupOf(rx.addr)].nak_cache
           hash  == hash_nak_payload(rx.buf, rx.n, NAK_HASH_PREFIX)
       IN  /\ hash \in DOMAIN cache
           /\ cache[hash].repeat_count = MAX_REPEATS
           /\ now_ms - cache[hash].timestamp_ms >= SUPPRESS_MS

---------------------------------------------------------------------------
(* Fatal errors of a group *)

\* the group the last event was for, as numbered before the event
FatalGroup == IF rx'.kind = "srt" THEN rx'.g ELSE GroupOf(rx'.addr)

---------------------------------------------------------------------------
(* Timeouts and recovery *)

\* the address is a connection of some group of the registry gs
Member(gs, addr) ==
    \E i \in 1..Len(gs) : \E k \in 1..Len(gs[i].conns) :
        SameAddress(gs[i].conns[k].addr, addr)

\* that connection
ConnRec(gs, addr) ==
    LET x == CHOOSE x \in (1..Len(gs)) \X (1..MAX_CONNS_PER_GROUP) :
                 /\ x[2] <= Len(gs[x[1]].conns)
                 /\ SameAddress(gs[x[1]].conns[x[2]].addr, addr)
    IN  gs[x[1]].conns[x[2]]

\* the group of the registry gs that has the id, if there is one
HasId(gs, id) == \E i \in 1..Len(gs) : gs[i].id = id

\* this step is the end of a reactor iteration whose cleanup run was not
\* skipped: last_run has moved on to the iteration's ts
CleanupRan == rx'.kind = "tick" /\ last_run' = ts /\ last_run # ts

\* in an executed cleanup run the connections that go are those with
\* current_time - last_rcvd > CONN_TIMEOUT, and the others stay where they are
TimedOutOnesRemoved ==
    CleanupRan =>
        \A x \in AllConns :
            LET conn == groups[x[1]].conns[x[2]]
            IN  /\ ~Member(groups', conn.addr) <=> (ts - conn.last_rcvd) > CONN_TIMEOUT
                /\ Member(groups', conn.addr) =>
                      \E i \in 1..Len(groups') :
                          /\ groups'[i].id = groups[x[1]].id
                          /\ \E k \in 1..Len(groups'[i].conns) :
                                SameAddress(groups'[i].conns[k].addr, conn.addr)

\* C12 as the specification states it: an executed cleanup run removes
\* exactly the connections with current_time - last_rcvd > CONN_TIMEOUT, and
\* a connection that has received a datagram -- here: the datagram before the
\* run, in the same second -- is not removed.
C12_FreshConnectionKept ==
    [][ /\ TimedOutOnesRemoved
        /\ (rx.kind = "srtla" /\ Member(groups, rx.addr) /\ rx'.kind = "tick")
              => Member(groups', rx.addr)
      ]_vars

\* C12, amended: an executed cleanup run removes exactly the connections
\* with current_time - last_rcvd > CONN_TIMEOUT; every datagram from a
\* connection other than a REG1 or REG2 sets last_rcvd to the time it is
\* handled at, so that a connection that has received such a datagram within
\* the last CONN_TIMEOUT seconds is not removed.
C12_RemovedIffTimedOut ==
    [][ /\ TimedOutOnesRemoved
        /\ (rx'.kind = "srtla" /\ ~IsRegistration(rx'.buf) /\ Member(groups, rx'.addr)
              /\ Member(groups', rx'.addr))
              => ConnRec(groups', rx'.addr).last_rcvd = ts
        /\ (rx.kind = "srtla" /\ ~IsRegistration(rx.buf) /\ Member(groups, rx.addr)
              /\ rx'.kind = "tick")
              => Member(groups', rx.addr)
      ]_vars

\* a cleanup run has just kept A2, which was silent for exactly CONN_TIMEOUT
\* seconds, and has sent it a keepalive; A1 is gone
C12_Witness ==
    /\ rx.kind = "tick" /\ last_run = ts - 1
    /\ ~Member(groups, A1)
    /\ Member(groups, A2)
    /\ last_run - ConnRec(groups, A2).last_rcvd = CONN_TIMEOUT
    /\ tx = <<send_keepalive(ConnRec(groups, A2))>>

\* C13: an executed cleanup run removes a group if and only if none of its
\* connections is left after the run's connection pass (each had
\* current_time - last_rcvd > CONN_TIMEOUT, or there was none) and
\* current_time - created_at > GROUP_TIMEOUT.
C13_GroupRemovedIffEmptyAndOld ==
    [][ CleanupRan =>
          \A g \in 1..Len(groups) :
              ~HasId(groups', groups[g].id) <=>
                  /\ \A c \in 1..Len(groups[g].conns) :
                        (ts - groups[g].conns[c].last_rcvd) > CONN_TIMEOUT
                  /\ (ts - groups[g].created_at) > GROUP_TIMEOUT
      ]_vars

\* a cleanup run has just left the group without connections alone, at the
\* age of exactly GROUP_TIMEOUT seconds
C13_Witness ==
    /\ rx.kind = "tick" /\ last_run = ts - 1
    /\ \E g \in 1..Len(groups) :
          /\ groups[g].id = IdleGroups[2].id
          /\ groups[g].conns = <<>>
          /\ last_run - groups[g].created_at = GROUP_TIMEOUT

\* C14: a datagram that is no REG1 or REG2, handled at time ts for a
\* registered connection, sets recovery_start to ts if last_rcvd +
\* CONN_TIMEOUT < ts and recovery_start is 0, and leaves recovery_start as it
\* is otherwise.
C14_RecoveryStarts ==
    [][ (rx'.kind = "srtla" /\ ~IsRegistration(rx'.buf) /\ Member(groups, rx'.addr)
           /\ Member(groups', rx'.addr)) =>
          LET before == ConnRec(groups, rx'.addr)
              after  == ConnRec(groups', rx'.addr)
          IN  after.recovery_start =
                 IF (before.last_rcvd + CONN_TIMEOUT) < ts /\ before.recovery_start = 0
                 THEN ts ELSE before.recovery_start
      ]_vars

\* A1 has just spoken again after more than CONN_TIMEOUT seconds and is
\* recovering since this second
C14_Witness ==
    /\ rx.kind = "srtla" /\ SameAddress(rx.addr, A1) /\ IsKeepalive(rx.buf)
    /\ Member(groups, A1)
    /\ ConnRec(groups, A1).recovery_start = ts
    /\ ConnRec(groups, A1).last_rcvd = ts
    /\ ConnRec(groups, A1).connection_start + CONN_TIMEOUT < ts

\* the addresses of a sequence of them
Range(seq) == {seq[i] : i \in DOMAIN seq}

---------------------------------------------------------------------------
(* Invariants of the registry.                                              *)

\* C16: in every reachable registry state no two groups have the same
\* 32-byte id, whatever REG1 datagrams were accepted, REG1s that carry the
\* same client-chosen half included.
C16_GroupIdsUnique ==
    \A i, j \in 1..Len(groups) : i # j => groups[i].id # groups[j].id

\* C17: in every reachable state the registry holds at most MAX_GROUPS
\* groups and every group holds at most MAX_CONNS_PER_GROUP connections.
C17_RegistryWithinLimits ==
    /\ Len(groups) <= MAX_GROUPS
    /\ \A g \in 1..Len(groups) : Len(groups[g].conns) <= MAX_CONNS_PER_GROUP

\* a REG1 from an address without a connection was refused by a registry that
\* holds MAX_GROUPS groups
C17_Witness ==
    /\ Reg1Handled /\ RepliedWith(SRTLA_TYPE_REG_ERR)
    /\ Len(groups) = MAX_GROUPS
    /\ ~HasConnection(rx.addr)

\* a REG2 was refused by a group that holds MAX_CONNS_PER_GROUP connections
C17_FullGroupReached ==
    /\ Reg2Handled /\ RepliedWith(SRTLA_TYPE_REG_ERR)
    /\ \E g \in 1..Len(groups) :
          /\ groups[g].id = RxBody
          /\ Len(groups[g].conns) = MAX_CONNS_PER_GROUP
          /\ ~Owns(g, rx.addr)

\* C18: between two datagram handlers every connection has
\* 0 <= recv_idx < RECV_ACK_INT: register_packet resets recv_idx to 0 when it
\* reaches RECV_ACK_INT, whether the ACK was sent, failed or was throttled.
C18_RecvIdxInRange ==
    \A x \in AllConns :
        LET conn == groups[x[1]].conns[x[2]]
        IN  0 <= conn.recv_idx /\ conn.recv_idx < RECV_ACK_INT

\* the twentieth data packet of the throttled uplink A1 completed a batch less
\* than the minimum interval after the last ACK: no ACK was emitted and
\* recv_idx is 0 again
C18_Witness ==
    /\ rx.kind = "srtla" /\ IsData(rx.buf) /\ SameAddress(rx.addr, A1)
    /\ DataCount(ConnOf(A1)) = 2 * RECV_ACK_INT
    /\ ConnOf(A1).stats.last_ack_sent_time > 0
    /\ RLess(ConnOf(A1).stats.ack_throttle_factor, One)
    /\ SelectSeq(tx, IsSrtlaAck) = <<>>
    /\ ConnOf(A1).recv_idx = 0

\* the tenth data packet of A2 completed a batch and sending the ACK failed
C18_FailedAckReached ==
    /\ rx.kind = "srtla" /\ IsData(rx.buf) /\ SameAddress(rx.addr, A2)
    /\ DataCount(ConnOf(A2)) = RECV_ACK_INT
    /\ \E i \in 1..Len(tx) : IsSrtlaAck(tx[i]) /\ ~tx[i].ret
    /\ ConnOf(A2).recv_idx = 0

---------------------------------------------------------------------------
(* Quality evaluation and load balancing *)

\* group g has a connection for the address that is timed out at time t
TimedOutMember(g, addr, t) ==
    \E c \in 1..Len(groups[g].conns) :
        /\ SameAddress(groups[g].conns[c].addr, addr)
        /\ (groups[g].conns[c].last_rcvd + CONN_TIMEOUT) < t

\* C19: in every reachable state every connection's ack_throttle_factor is
\* at least MIN_ACK_RATE (0.2) and at most 1.0, also for a connection that
\* is timed out but not yet removed and whose weight exceeds the maximum
\* weight of the active connections.
C19_ThrottleInRange ==
    \A x \in AllConns :
        LET f == groups[x[1]].conns[x[2]].stats.ack_throttle_factor
        IN  /\ f.den > 0
            /\ 5 * f.num >= f.den
            /\ f.num <= f.den

\* the load balancer has just computed throttles for a group with two active
\* uplinks of weight below 100 and a timed-out uplink A3 of weight 100
C19_Witness ==
    /\ rx.kind = "tick"
    /\ Len(groups) = 1
    /\ groups[1].last_load_balance_eval = ts - 1
    /\ TimedOutMember(1, A3, ts - 1)
    /\ Len(groups[1].conns) = 3
    /\ \A c \in 1..3 :
          LET conn == groups[1].conns[c]
          IN  IF SameAddress(conn.addr, A3)
              THEN conn.stats.weight_percent = 100 /\ conn.stats.ack_throttle_factor.num = 1
              ELSE /\ ~((conn.last_rcvd + CONN_TIMEOUT) < ts - 1)
                   /\ conn.stats.weight_percent < 100
                   /\ conn.stats.ack_throttle_factor.num < conn.stats.ack_throttle_factor.den

\* the weight buckets as the specification states them
WeightBucket(points) ==
    IF points >= 40 THEN 10
    ELSE IF points >= 25 THEN 40
    ELSE IF points >= 15 THEN 55
    ELSE IF points >= 10 THEN 70
    ELSE IF points >= 5 THEN 85
    ELSE 100

\* the load balancer has run its pass on the group with this id in the step
BalancerRan(id) ==
    \E i \in 1..Len(groups), j \in 1..Len(groups') :
        /\ groups[i].id = id /\ groups'[j].id = id
        /\ groups'[j].last_load_balance_eval # groups[i].last_load_balance_eval

\* C20: whenever the load balancer has run its pass on a group, each
\* connection's weight_percent is the bucket of its error points (>= 40: 10,
\* >= 25: 40, >= 15: 55, >= 10: 70, >= 5: 85, else 100); and weight_percent
\* is always one of 10, 40, 55, 70, 85, 100.
C20_WeightIsBucket ==
    /\ [](\A x \in AllConns :
            groups[x[1]].conns[x[2]].stats.weight_percent \in {10, 40, 55, 70, 85, 100})
    /\ [][ \A j \in 1..Len(groups') :
              BalancerRan(groups'[j].id) =>
                 \A c \in 1..Len(groups'[j].conns) :
                    groups'[j].conns[c].stats.weight_percent
                       = WeightBucket(groups'[j].conns[c].stats.error_points)
         ]_vars

\* the pass has just run on a group whose uplinks A1 and A2 were scored 15
\* and 0 points: their weights are 55 and 100
C20_Witness ==
    /\ rx.kind = "tick"
    /\ Len(groups) = 1
    /\ groups[1].last_load_balance_eval = ts - 1
    /\ IsMember(A1) /\ IsMember(A2)
    /\ ConnOf(A1).stats.error_points = 15 /\ ConnOf(A1).stats.weight_percent = 55
    /\ ConnOf(A2).stats.error_points = 0 /\ ConnOf(A2).stats.weight_percent = 100

\* the quality evaluation has run on the group with this id in the step
EvaluatorRan(id) ==
    \E i \in 1..Len(groups), j \in 1..Len(groups') :
        /\ groups[i].id = id /\ groups'[j].id = id
        /\ groups'[j].last_quality_eval # groups[i].last_quality_eval

\* C21: a connection that is in its grace period at the time of a quality
\* evaluation (time - connection_start < CONNECTION_GRACE_PERIOD) has 0 error
\* points after it, whatever its bandwidth, loss or telemetry.
C21_GraceKeepsZeroPoints ==
    [][ \A j \in 1..Len(groups') :
           EvaluatorRan(groups'[j].id) =>
              \A c \in 1..Len(groups'[j].conns) :
                 (groups'[j].last_quality_eval - groups'[j].conns[c].connection_start)
                      < CONNECTION_GRACE_PERIOD
                 => groups'[j].conns[c].stats.error_points = 0
      ]_vars

\* an evaluation has just scored A1, which delivered nothing, 40 points; A3
\* delivered nothing either, is 6 s old, and has 0 points
C21_Witness ==
    /\ rx.kind = "tick"
    /\ Len(groups) = 1
    /\ groups[1].last_quality_eval = ts - 1
    /\ IsMember(A1) /\ IsMember(A3)
    /\ ConnOf(A1).stats.error_points = 40
    /\ ConnOf(A3).stats.bytes_received = ConnOf(A3).stats.last_bytes_received
    /\ (ts - 1) - ConnOf(A3).connection_start < CONNECTION_GRACE_PERIOD
    /\ ConnOf(A3).stats.error_points = 0

(* Keepalives *)

\* the last handler took a keepalive from a connection of the registry
KeepaliveHandled ==
    rx.kind = "srtla" /\ IsKeepalive(rx.buf) /\ ~IsRegistration(rx.buf) /\ IsMember(rx.addr)

\* the telemetry of the keepalive the last handler took is what the
\* connection now holds
TelemetryStored ==
    /\ Len(rx.buf) >= SRTLA_KEEPALIVE_EXT_LEN
    /\ ConnOf(rx.addr).stats.last_keepalive = now_ms \div 1000
    /\ BE32s(ConnOf(rx.addr).stats.window) = SubSeq(rx.buf, 19, 22)
    /\ BE32s(ConnOf(rx.addr).stats.in_flight) = SubSeq(rx.buf, 23, 26)

\* C22: every keepalive received from a registered connection is echoed to
\* the sender's address with exactly the bytes and the length it came with,
\* whether it is plain, extended or malformed: the echo is the last datagram
\* the handler sends.
C22_KeepaliveEchoed ==
    KeepaliveHandled =>
        /\ tx # <<>>
        /\ tx[Len(tx)].sock = SRTLA_SOCK
        /\ tx[Len(tx)].to = rx.addr
        /\ tx[Len(tx)].buf = rx.buf
        /\ Len(tx[Len(tx)].buf) = rx.n

\* an extended keepalive with two bytes behind the telemetry has been parsed
\* and echoed in full
C22_Witness ==
    /\ KeepaliveHandled
    /\ rx.n = SRTLA_KEEPALIVE_EXT_LEN + 2
    /\ TelemetryStored
    /\ tx[Len(tx)].buf = rx.buf

\* a keepalive a byte too short for telemetry has been echoed and has left
\* no telemetry
C22_MalformedEchoed ==
    /\ KeepaliveHandled
    /\ rx.n = SRTLA_KEEPALIVE_EXT_LEN - 1
    /\ ConnOf(rx.addr).stats.last_keepalive = 0
    /\ tx[Len(tx)].buf = rx.buf

(* Packets that are not SRT data *)

\* the first bit of the datagram is set: get_srt_sn gives -1
TopBitSet(buf) == Len(buf) >= 4 /\ buf[1] >= 128

\* the connection with this address has the same log as before the step
LogUnchanged(addr) ==
    \A x \in AllConns :
        SameAddress(PeerOf(x), addr) =>
            \E c \in 1..Len(groups'[x[1]].conns) :
                /\ SameAddress(groups'[x[1]].conns[c].addr, addr)
                /\ groups'[x[1]].conns[c].recv_log = groups[x[1]].conns[x[2]].recv_log
                /\ groups'[x[1]].conns[c].recv_idx = groups[x[1]].conns[x[2]].recv_idx

\* group g is no longer in the registry after the step
GroupRemoved(g) ==
    /\ Len(groups') = Len(groups) - 1
    /\ \A i \in 1..Len(groups') : groups'[i].id # groups[g].id

\* C23 as the specification states it: a datagram of SRT_MIN_LEN bytes or
\* more from a registered connection whose top bit is set and that is not a
\* suppressed duplicate NAK is forwarded to the SRT server and not logged:
\* recv_log and recv_idx of the connection are unchanged.
C23_TopBitForwardedNotLogged ==
    [][ ( /\ rx'.kind = "srtla" /\ HasConnection(rx'.addr)
          /\ rx'.n >= SRT_MIN_LEN
          /\ TopBitSet(rx'.buf)
          /\ ~SuppressedNak(GroupOf(rx'.addr), rx'.buf, now_ms') )
        => /\ ForwardedOnce(GroupOf(rx'.addr), rx'.buf)
           /\ Len(groups') = Len(groups)
           /\ LogUnchanged(rx'.addr)
      ]_vars

\* C23, amended: a datagram of SRT_MIN_LEN bytes or more from a registered
\* connection whose top bit is set and that is neither a REG1 or REG2, nor a
\* keepalive, nor a suppressed duplicate NAK is sent once to the SRT server
\* and not logged: no SRTLA ACK is sent, and recv_log and recv_idx of the
\* connection are unchanged if the group survives the send -- unless the
\* group has no SRT socket yet and none can be set up: then nothing is sent
\* and the group is removed.
C23_ControlForwardedNotLogged ==
    [][ ( /\ rx'.kind = "srtla" /\ HasConnection(rx'.addr)
          /\ rx'.n >= SRT_MIN_LEN
          /\ TopBitSet(rx'.buf)
          /\ ~IsRegistration(rx'.buf)
          /\ ~IsKeepalive(rx'.buf)
          /\ ~SuppressedNak(GroupOf(rx'.addr), rx'.buf, now_ms') )
        => /\ SelectSeq(tx', IsSrtlaAck) = <<>>
           /\ \/ /\ ForwardedOnce(GroupOf(rx'.addr), rx'.buf)
                 /\ \/ GroupRemoved(GroupOf(rx'.addr))
                    \/ Len(groups') = Len(groups) /\ LogUnchanged(rx'.addr)
              \/ /\ groups[GroupOf(rx'.addr)].srt_sock < 0
                 /\ SrtSends' = <<>>
                 /\ GroupRemoved(GroupOf(rx'.addr))
      ]_vars

\* a NAK has come from A1 behind nine data packets and has been forwarded; A1
\* still has nine entries in its log
C23_Witness ==
    /\ rx.kind = "srtla" /\ SameAddress(rx.addr, A1) /\ rx.buf = AckNakPkt
    /\ IsMember(A1)
    /\ Len(SrtSends) = 1 /\ SrtSends[1].buf = rx.buf /\ SrtSends[1].ret
    /\ DataCount(ConnOf(A1)) = RECV_ACK_INT - 1
    /\ ConnOf(A1).recv_idx = RECV_ACK_INT - 1
    /\ ConnOf(A1).stats.packets_lost = 1

(* last_address *)

\* a connection of group g has the address
MemberOf(g, addr) ==
    \E c \in 1..Len(groups[g].conns) : SameAddress(groups[g].conns[c].addr, addr)

\* the handler of the step took a datagram of SRT_MIN_LEN bytes or more, not
\* a keepalive and not a registration, from a connection of group g
DataTaken(g) ==
    /\ rx'.kind = "srtla" /\ rx'.n >= SRT_MIN_LEN
    /\ ~IsKeepalive(rx'.buf) /\ ~IsRegistration(rx'.buf)
    /\ MemberOf(g, rx'.addr)

\* the handler of the step answered REG3 to a REG2 that names group g
Reg2Accepted(g) ==
    /\ rx'.kind = "srtla" /\ is_srtla_reg2(rx'.buf, rx'.n)
    /\ SubSeq(rx'.buf, 3, rx'.n) = groups[g].id
    /\ Len(tx') = 1 /\ tx'[1].buf = BE16(SRTLA_TYPE_REG3) /\ tx'[1].ret

\* group g has taken a datagram that counts as received
HasTakenData(g) ==
    \E c \in 1..Len(groups[g].conns) : groups[g].conns[c].stats.packets_received > 0

\* C24 as the specification states it: once a group has accepted a
\* non-keepalive datagram of SRT_MIN_LEN bytes or more from a member
\* connection, its last_address is the peer address of the most recent such
\* datagram: every such datagram (an SRT packet, or a REG2 from a member that
\* is answered REG3) sets it, and nothing else changes it.
C24_LastAddressFollowsData ==
    [][ \A g \in 1..Len(groups), h \in 1..Len(groups') :
           groups'[h].id = groups[g].id =>
              IF DataTaken(g) \/ (Reg2Accepted(g) /\ MemberOf(g, rx'.addr))
              THEN groups'[h].last_addr = rx'.addr
              ELSE HasTakenData(g) => groups'[h].last_addr = groups[g].last_addr
      ]_vars

\* C24, amended: last_address of a group is the peer address of the most
\* recent datagram that is either a non-keepalive datagram of SRT_MIN_LEN
\* bytes or more from a member connection or a REG2 for the group that is
\* answered REG3, be it from a member or from an address that joins with it:
\* every such datagram sets last_address and nothing else changes it.
C24_LastAddressFollowsDataOrReg2 ==
    [][ \A g \in 1..Len(groups), h \in 1..Len(groups') :
           groups'[h].id = groups[g].id =>
              IF DataTaken(g) \/ Reg2Accepted(g)
              THEN groups'[h].last_addr = rx'.addr
              ELSE groups'[h].last_addr = groups[g].last_addr
      ]_vars

\* A2 has sent an SRT packet and then A1 has: last_address has moved from A2
\* to A1
C24_Witness ==
    /\ rx.kind = "srtla" /\ SameAddress(rx.addr, A1) /\ IsData(rx.buf)
    /\ IsMember(A1) /\ IsMember(A2)
    /\ ConnOf(A2).stats.packets_received > 0
    /\ SameAddress(groups[GroupOf(A1)].last_addr, A1)

\* A3, whose group is gone, has joined the group of A1 and A2 behind their
\* SRT packets: last_address is A3, which has sent no SRT packet
C24_JoinMovesLastAddress ==
    /\ Reg2Handled
    /\ SameAddress(rx.addr, A3)
    /\ IsMember(A1) /\ IsMember(A3)
    /\ GroupOf(A3) = GroupOf(A1)
    /\ ConnOf(A1).stats.packets_received > 0
    /\ ConnOf(A3).stats.packets_received = 0
    /\ SameAddress(groups[GroupOf(A1)].last_addr, A3)

(* Datagrams of unknown senders *)

\* C25: a datagram that is not a well-formed REG1 or REG2 and whose sender
\* has no connection in the registry, also when its address is the
\* last_address of a group, is dropped: nothing is sent, neither a reply nor
\* to an SRT server, and the registry is unchanged.
C25_UnknownSenderDropped ==
    [][ ( /\ rx'.kind = "srtla"
          /\ ~IsRegistration(rx'.buf)
          /\ ~HasConnection(rx'.addr) )
        => tx' = <<>> /\ groups' = groups
      ]_vars

\* an SRT data packet has come from A1, which has no connection but is the
\* last_address of a group; nothing has been sent
C25_Witness ==
    /\ rx.kind = "srtla" /\ SameAddress(rx.addr, A1) /\ IsData(rx.buf)
    /\ ~HasConnection(A1)
    /\ OwnerOf(A1) # 0
    /\ groups[OwnerOf(A1)].conns # <<>>
    /\ tx = <<>>

\* a keepalive has come from an address that nobody in the registry has
C25_StrangerKeepalive ==
    /\ rx.kind = "srtla" /\ IsKeepalive(rx.buf)
    /\ groups # <<>>
    /\ OwnerOf(rx.addr) = 0
    /\ tx = <<>>

---------------------------------------------------------------------------
(* Idempotence of the cleanup *)

\* the addresses of a registry's connections, group by group
MembersOf(gs) ==
    [g \in 1..Len(gs) |-> [c \in 1..Len(gs[g].conns) |-> gs[g].conns[c].addr]]

\* what a second cleanup pass at the same current_time leaves of gs
CleanedAgain(gs, current_time) == cleanup_groups(gs, current_time).groups

\* C26: an executed cleanup run leaves a registry from which a second run
\* at the same current time, with no datagram in between, removes no
\* connection and no group (it leaves every record as it is; the static
\* last_run even makes the second call return at once).
C26_CleanupIdempotent ==
    [][ CleanupRan =>
          /\ MembersOf(CleanedAgain(groups', ts)) = MembersOf(groups')
          /\ CleanedAgain(groups', ts) = groups'
          /\ cleanup_inactive(groups', ts, last_run').groups = groups'
      ]_vars

\* a cleanup run has just removed the second uplink and left the first
C26_Witness ==
    /\ rx.kind = "tick" /\ last_run = ts - 1
    /\ Len(groups) >= 1
    /\ MembersOf(groups)[1] = <<A1>>
    /\ last_run - TwoUplinks[1].conns[2].last_rcvd > CONN_TIMEOUT

\* a cleanup run has just removed a group
C26_GroupGone ==
    /\ rx.kind = "tick" /\ last_run = ts - 1
    /\ Len(groups) < Len(IdleGroups)

---------------------------------------------------------------------------
(* Idempotence of the load balancer *)

\* the weight and the throttle of each connection of a group
Shares(group) ==
    [c \in 1..Len(group.conns) |->
        <<group.conns[c].stats.weight_percent, group.conns[c].stats.ack_throttle_factor>>]

\* the group as the pass found it, but for the weights and throttles the
\* pass has left: the inputs of a second run with identical inputs
BeforeSecondRun(after, last_eval) == [after EXCEPT !.last_load_balance_eval = last_eval]

\* C27: when the load balancer has run on a group, a second run with
\* identical inputs (same error points, last-received times and current
\* time) leaves every connection's weight_percent and ack_throttle_factor
\* as the first run left them; so does a second call as it is (it returns
\* at once).
C27_BalancerIdempotent ==
    [][ \A i \in 1..Len(groups), j \in 1..Len(groups') :
          (/\ groups[i].id = groups'[j].id
           /\ groups'[j].last_load_balance_eval # groups[i].last_load_balance_eval)
          => /\ Shares(adjust_weights(BeforeSecondRun(groups'[j],
                                          groups[i].last_load_balance_eval), ts))
                 = Shares(groups'[j])
             /\ adjust_weights(groups'[j], ts) = groups'[j]
      ]_vars

\* the pass has just changed weights and throttles: A1 has 15 points, weight
\* 55 and throttle 0.55
C27_Witness ==
    /\ rx.kind = "tick"
    /\ Len(groups) = 1
    /\ groups[1].last_load_balance_eval = ts - 1
    /\ IsMember(A1) /\ IsMember(A2)
    /\ ConnOf(A1).stats.error_points = 15
    /\ Shares(groups[1])[1] = <<55, Rat(55, 100)>>

---------------------------------------------------------------------------
(* One slow uplink among four *)

\* what the uplink has delivered since its last snapshot, as a rate over one
\* evaluation period, lies between lo and hi kbit/s
Delivers(addr, lo, hi) ==
    /\ IsMember(addr)
    /\ LET s    == ConnOf(addr).stats
           rate == Rat((s.bytes_received - s.last_bytes_received) * 8,
                       CONN_QUALITY_EVAL_PERIOD * 1000)
       IN  ~RLess(rate, Rat(lo, 1)) /\ ~RLess(Rat(hi, 1), rate)

\* four uplinks that are heard (none is timed out), three at about 1 Mbit/s
\* and one at about 50 kbit/s
ThreeFastOneSlow ==
    /\ Len(groups) = 1 /\ Len(groups[1].conns) = 4
    /\ \A a \in {A1, A2, A3, A4} : IsMember(a) /\ ~conn_timed_out(ConnOf(a), ts)
    /\ \A a \in {A1, A2, A3} : Delivers(a, 900, 1100)
    /\ Delivers(A4, 40, 60)

\* the slow uplink after the step: penalised, down-weighted and throttled
SlowLinkPenalised ==
    \E j \in 1..Len(groups'), c \in 1..MAX_CONNS_PER_GROUP :
        /\ c <= Len(groups'[j].conns)
        /\ groups'[j].conns[c].addr = A4
        /\ groups'[j].conns[c].stats.error_points >= 25
        /\ groups'[j].conns[c].stats.weight_percent <= 40
        /\ RLess(groups'[j].conns[c].stats.ack_throttle_factor, One)

\* C28 as stated: with three uplinks at about 1 Mbit/s and one at about
\* 50 kbit/s, the quality evaluation and the balancing pass that follow the
\* evaluation period leave the slow link with error_points >= 25,
\* weight_percent <= 40 and ack_throttle_factor < 1.0.
C28_SlowLinkPenalised ==
    [][ (ThreeFastOneSlow /\ EvaluatorRan(groups[1].id)) => SlowLinkPenalised ]_vars

\* C28, for a slow link that has left its grace period: with three uplinks
\* at about 1 Mbit/s and one at about 50 kbit/s, the quality evaluation and
\* the balancing pass that follow the evaluation period leave a slow link
\* that is at least CONNECTION_GRACE_PERIOD old with error_points >= 25,
\* weight_percent <= 40 and ack_throttle_factor < 1.0.
C28_SlowLinkPenalisedAfterGrace ==
    [][ (/\ ThreeFastOneSlow
         /\ EvaluatorRan(groups[1].id)
         /\ ~in_grace_period(ConnOf(A4), ts))
        => SlowLinkPenalised ]_vars

\* the evaluation has just compared the four measured rates: the fast
\* uplinks have no points and full weight, the slow one has 40 points,
\* weight 10 and throttle 0.2
C28_Witness ==
    /\ rx.kind = "tick"
    /\ Len(groups) = 1 /\ Len(groups[1].conns) = 4
    /\ groups[1].last_quality_eval = ts - 1
    /\ groups[1].last_load_balance_eval = ts - 1
    /\ \A a \in {A1, A2, A3} :
          /\ IsMember(a)
          /\ ConnOf(a).stats.error_points = 0
          /\ ConnOf(a).stats.weight_percent = WEIGHT_FULL
          /\ ConnOf(a).stats.last_bytes_received > 100 * MTU
    /\ IsMember(A4)
    /\ ConnOf(A4).stats.last_bytes_received > 10 * MTU
    /\ Shares(groups[1])[4] = <<WEIGHT_CRITICAL, MIN_ACK_RATE>>
    /\ ConnOf(A4).stats.error_points = 40

\* the evaluation has just passed over four uplinks in their grace period
C28_GraceReached ==
    /\ rx.kind = "tick"
    /\ Len(groups) = 1 /\ Len(groups[1].conns) = 4
    /\ groups[1].last_quality_eval = ts - 1
    /\ IsMember(A4)
    /\ in_grace_period(ConnOf(A4), ts - 1)
    /\ ConnOf(A4).stats.bytes_received > 10 * MTU
    /\ Shares(groups[1])[4] = <<WEIGHT_FULL, One>>

---------------------------------------------------------------------------
(* Throttled acknowledgements *)

\* the step logs the tenth sequence number of a batch of A1
TenthLogged ==
    /\ rx'.kind = "srtla" /\ IsData(rx'.buf) /\ SameAddress(rx'.addr, A1)
    /\ IsMember(A1)
    /\ ConnOf(A1).recv_idx = RECV_ACK_INT - 1

\* the step emits no SRTLA ACK and leaves recv_idx of A1 at 0
AckSuppressed ==
    /\ SelectSeq(tx', IsSrtlaAck) = <<>>
    /\ \E j \in 1..Len(groups'), c \in 1..MAX_CONNS_PER_GROUP :
          /\ c <= Len(groups'[j].conns)
          /\ SameAddress(groups'[j].conns[c].addr, A1)
          /\ groups'[j].conns[c].recv_idx = 0

\* every SRTLA ACK of the step reports the batch that the datagram of the
\* step completes, the ten sequence numbers up to its own, and nothing older
AcksReportCurrentBatch ==
    \A i \in 1..Len(tx') :
        IsSrtlaAck(tx'[i]) =>
            /\ IsData(rx'.buf)
            /\ tx'[i].buf = AckPacket([k \in 1..RECV_ACK_INT |->
                                 BE32(get_srt_sn(rx'.buf, rx'.n) - RECV_ACK_INT + k)])

\* C29 as stated: with throttle f < 1.0, when the tenth sequence number of a
\* batch is logged at time now and now - last_ack_sent_time is less than
\* ACK_THROTTLE_INTERVAL / f ms, no SRTLA ACK is emitted, recv_idx is reset
\* to 0 and the batch is in no later ACK.
C29_ThrottledBatchLost ==
    [][ /\ (/\ TenthLogged
            /\ RLess(ConnOf(A1).stats.ack_throttle_factor, One)
            /\ (now_ms' - ConnOf(A1).stats.last_ack_sent_time)
                  * ConnOf(A1).stats.ack_throttle_factor.num
               < ACK_THROTTLE_INTERVAL * ConnOf(A1).stats.ack_throttle_factor.den)
           => AckSuppressed
        /\ AcksReportCurrentBatch
      ]_vars

\* C29, with the interval as the code computes it: with throttle f < 1.0,
\* when the tenth sequence number of a batch is logged at time now, an ACK
\* has been sent before (last_ack_sent_time > 0) and now - last_ack_sent_time
\* is less than ACK_THROTTLE_INTERVAL / f truncated to whole ms, no SRTLA ACK
\* is emitted and recv_idx is reset to 0; every ACK that is emitted reports
\* the ten sequence numbers logged since the last reset only, so a suppressed
\* batch is in no later ACK.
C29_ThrottledBatchLostWholeMs ==
    [][ /\ (/\ TenthLogged
            /\ RLess(ConnOf(A1).stats.ack_throttle_factor, One)
            /\ ConnOf(A1).stats.last_ack_sent_time > 0
            /\ (now_ms' - ConnOf(A1).stats.last_ack_sent_time)
                  < ((ACK_THROTTLE_INTERVAL * ConnOf(A1).stats.ack_throttle_factor.den)
                        \div ConnOf(A1).stats.ack_throttle_factor.num))
           => AckSuppressed
        /\ AcksReportCurrentBatch
      ]_vars

\* the twentieth data packet of A1 has completed the second batch less than
\* the minimum interval after the ACK of the first: no ACK, recv_idx is 0
C29_Witness ==
    /\ rx.kind = "srtla" /\ IsData(rx.buf) /\ SameAddress(rx.addr, A1)
    /\ IsMember(A1)
    /\ PaceNextSn(ConnOf(A1)) = SnBase + (2 * RECV_ACK_INT)
    /\ RLess(ConnOf(A1).stats.ack_throttle_factor, One)
    /\ ConnOf(A1).stats.last_ack_sent_time > 0
    /\ now_ms - ConnOf(A1).stats.last_ack_sent_time > 0
    /\ now_ms - ConnOf(A1).stats.last_ack_sent_time
          < (ACK_THROTTLE_INTERVAL * ConnOf(A1).stats.ack_throttle_factor.den)
               \div ConnOf(A1).stats.ack_throttle_factor.num
    /\ SelectSeq(tx, IsSrtlaAck) = <<>>
    /\ ConnOf(A1).recv_idx = 0

\* the second batch of an uplink throttled to 0.55 has been acknowledged
\* 181 ms after the first
C29_AckAtWholeMs ==
    /\ rx.kind = "srtla" /\ IsData(rx.buf) /\ SameAddress(rx.addr, A1)
    /\ IsMember(A1)
    /\ PaceNextSn(ConnOf(A1)) = SnBase + (2 * RECV_ACK_INT)
    /\ ConnOf(A1).stats.ack_throttle_factor = Rat(55, 100)
    /\ now_ms = BalT0 + 181
    /\ ConnOf(A1).stats.last_ack_sent_time = now_ms
    /\ SelectSeq(tx, IsSrtlaAck) # <<>>

---------------------------------------------------------------------------
(* Throttles after a balancing pass *)

\* the connections of the group that are not timed out at current_time
NotTimedOut(group, current_time) ==
    {c \in 1..Len(group.conns) : ~((group.conns[c].last_rcvd + CONN_TIMEOUT) < current_time)}

\* the throttle the specification gives a connection of this weight
SpecThrottle(weight, max_weight) ==
    RMax(Rat(2, 10),
         RMin(Rat(weight, 100), IF max_weight > 0 THEN Rat(weight, max_weight) ELSE Zero))

\* every connection of the group has the throttle of the formula if the
\* balancing is enabled and two connections or more are not timed out, and
\* throttle 1.0 if not
ThrottlesAsSpecified(group, current_time) ==
    LET active     == NotTimedOut(group, current_time)
        max_weight == Max({0} \cup {group.conns[c].stats.weight_percent : c \in active})
    IN  \A c \in 1..Len(group.conns) :
            group.conns[c].stats.ack_throttle_factor =
                IF group.load_balancing_enabled /\ Cardinality(active) >= 2
                THEN SpecThrottle(group.conns[c].stats.weight_percent, max_weight)
                ELSE One

\* the group with the balancing disabled, before its first pass
BalancingDisabled(group) ==
    [group EXCEPT !.load_balancing_enabled = FALSE, !.last_load_balance_eval = 0]

\* C30: after the load balancer has run its pass on a group, every
\* connection's throttle is max(MIN_ACK_RATE, min(weight/100,
\* weight/max_weight)), max_weight being the maximum weight of the
\* connections that are not timed out, if load balancing is enabled and at
\* least two connections are not timed out; otherwise (fewer than two
\* active connections, or a pass on the group with the balancing disabled)
\* every connection's throttle is 1.0.
C30_ThrottleAfterPass ==
    [][ \A i \in 1..Len(groups), j \in 1..Len(groups') :
          (/\ groups[i].id = groups'[j].id
           /\ groups'[j].last_load_balance_eval # groups[i].last_load_balance_eval)
          => /\ ThrottlesAsSpecified(groups'[j], ts)
             /\ ThrottlesAsSpecified(adjust_weights(BalancingDisabled(groups'[j]), ts), ts)
      ]_vars

\* the pass has just set the throttles of two active uplinks: A1, with 15
\* points, has 0.55 and A2, with 25 points, has 0.4
C30_Witness ==
    /\ rx.kind = "tick"
    /\ Len(groups) = 1
    /\ groups[1].last_load_balance_eval = ts - 1
    /\ Cardinality(NotTimedOut(groups[1], ts - 1)) >= 2
    /\ IsMember(A1) /\ IsMember(A2)
    /\ ConnOf(A1).stats.error_points = 15
    /\ ConnOf(A1).stats.ack_throttle_factor = Rat(55, 100)
    /\ ConnOf(A2).stats.error_points = 25
    /\ ConnOf(A2).stats.ack_throttle_factor = Rat(40, 100)

\* the pass has just found fewer than two active uplinks and has put a
\* penalised uplink's throttle back to 1.0
C30_ForcedToOne ==
    /\ rx.kind = "tick"
    /\ Len(groups) = 1
    /\ groups[1].last_load_balance_eval = ts - 1
    /\ Cardinality(NotTimedOut(groups[1], ts - 1)) < 2
    /\ \E c \in 1..Len(groups[1].conns) :
          /\ groups[1].conns[c].stats.weight_percent < WEIGHT_FULL
          /\ groups[1].conns[c].stats.ack_throttle_factor = One

---------------------------------------------------------------------------
(* Evaluation period *)

\* C31: any two quality evaluations of a group are at least
\* CONN_QUALITY_EVAL_PERIOD apart: every update of last_quality_eval, by the
\* reactor or by the data path on a connection with nack_count > 5, moves it
\* forward by CONN_QUALITY_EVAL_PERIOD or more.
C31_EvaluationsSpaced ==
    [][ \A i \in 1..Len(groups), j \in 1..Len(groups') :
          (/\ groups[i].id = groups'[j].id
           /\ groups'[j].last_quality_eval # groups[i].last_quality_eval)
          => groups'[j].last_quality_eval
                >= groups[i].last_quality_eval + CONN_QUALITY_EVAL_PERIOD
      ]_vars

\* the data path has just evaluated the group: the loss report of an uplink
\* with nack_count > 5 is the first event of second ts, the evaluation
\* before it was CONN_QUALITY_EVAL_PERIOD earlier
C31_Witness ==
    /\ rx.kind = "srtla" /\ IsNak(rx.buf) /\ SameAddress(rx.addr, A1)
    /\ now_ms = ts * 1000
    /\ Len(groups) = 1
    /\ groups[1].last_quality_eval = ts
    /\ ts = T0s + CONN_QUALITY_EVAL_PERIOD
    /\ IsMember(A1) /\ ConnOf(A1).stats.nack_count > 5

\* the reactor has just evaluated the group for the second time
C31_ReactorEvaluated ==
    /\ rx.kind = "tick"
    /\ Len(groups) = 1
    /\ groups[1].last_quality_eval = ts - 1
    /\ groups[1].last_quality_eval = T0s + CONN_QUALITY_EVAL_PERIOD

---------------------------------------------------------------------------
(* Readiness events of one batch *)

\* C32: within one batch of readiness events, handle_srt_data is called only
\* for a group that is in the registry, the group of the event; once an
\* event has made the group count shrink the rest of the batch is skipped;
\* so no event is looked at whose group was destroyed earlier in the batch.
C32_NoEventForDestroyedGroup ==
    rx.kind = "batch" =>
        /\ \A k \in 1..Len(rx.handled) :
              /\ rx.handled[k].alive
              /\ rx.handled[k].target.fd >= 0 => rx.handled[k].target = rx.handled[k].ptr
              /\ rx.handled[k].shrank => k = Len(rx.handled)
        /\ Len(rx.handled) < Len(rx.events) => rx.handled[Len(rx.handled)].shrank

\* the first event of a batch of three has destroyed a group; the other two,
\* one of them for the SRT socket of that group, have been skipped
C32_Witness ==
    /\ rx.kind = "batch"
    /\ Len(rx.events) = 3 /\ Len(rx.handled) = 1
    /\ rx.handled[1].shrank
    /\ \E k \in 2..3 :
          /\ rx.events[k].kind = "srt"
          /\ ~PtrAlive(groups, rx.events[k].ptr)
          /\ rx.events[k].ptr.id = TwoGroups[1].id

\* a batch of three events has been handled to its end
C32_WholeBatch ==
    /\ rx.kind = "batch"
    /\ Len(rx.handled) = 3
    /\ \E k \in 1..3 : rx.handled[k].target.fd >= 0

---------------------------------------------------------------------------
(* The measured bandwidth of a scored connection *)

\* the step is a quality evaluation that scores the connection c of group i:
\* it is past its grace period and the evaluation takes its snapshot
ScoredNow(i, c) ==
    /\ EvaluatorRan(groups[i].id)
    /\ ~in_grace_period(groups[i].conns[c], ts)
    /\ \E j \in 1..Len(groups'), e \in 1..MAX_CONNS_PER_GROUP :
          /\ groups'[j].id = groups[i].id
          /\ e <= Len(groups'[j].conns)
          /\ groups'[j].conns[e].addr = groups[i].conns[c].addr
          /\ groups'[j].conns[e].stats.last_eval_time = now_ms
          /\ groups'[j].conns[e].stats.last_bytes_received
                = groups[i].conns[c].stats.bytes_received

ReceivedSinceSnapshot(conn) ==
    conn.stats.bytes_received > conn.stats.last_bytes_received

\* the bandwidth the evaluation of the step measures for the connection
MeasuredBandwidth(conn) == QualityMetrics(conn, now_ms).bandwidth_kbits_per_sec

\* C33 as stated: every quality evaluation that scores a connection uses its
\* rates since its last snapshot; a connection that has received bytes since
\* its last snapshot, or since its creation if it was never snapshotted, is
\* scored with a positive measured bandwidth.
C33_PositiveBandwidth ==
    [][ \A i \in 1..Len(groups), c \in 1..MAX_CONNS_PER_GROUP :
          (/\ c <= Len(groups[i].conns)
           /\ ScoredNow(i, c)
           /\ ReceivedSinceSnapshot(groups[i].conns[c]))
          => RLess(Zero, MeasuredBandwidth(groups[i].conns[c]))
      ]_vars

\* C33, for a connection that has a snapshot: a scored connection that has
\* been snapshotted before (last_eval_time > 0) and has received bytes since
\* is scored with the positive bandwidth bytes_diff * 8 / time_diff_ms; a
\* scored connection that was never snapshotted is scored with a measured
\* bandwidth of 0, whatever it has received since its creation.
C33_PositiveBandwidthSinceSnapshot ==
    [][ \A i \in 1..Len(groups), c \in 1..MAX_CONNS_PER_GROUP :
          (c <= Len(groups[i].conns) /\ ScoredNow(i, c))
          => LET conn == groups[i].conns[c]
             IN  /\ (conn.stats.last_eval_time > 0 /\ ReceivedSinceSnapshot(conn))
                      => /\ RLess(Zero, MeasuredBandwidth(conn))
                         /\ MeasuredBandwidth(conn)
                              = Rat((conn.stats.bytes_received
                                       - conn.stats.last_bytes_received) * 8,
                                    now_ms - conn.stats.last_eval_time)
                 /\ conn.stats.last_eval_time = 0 => MeasuredBandwidth(conn) = Zero
      ]_vars

\* an uplink that was scored 5 s ago has delivered about 1 Mbit/s since and
\* has just been scored again, without a bandwidth penalty
C33_Witness ==
    /\ rx.kind = "tick"
    /\ IsMember(A1)
    /\ ConnOf(A1).connection_start = QualT0s - 30
    /\ ConnOf(A1).stats.last_eval_time = QualT0
    /\ now_ms = QualT0 + EPOLL_TIMEOUT
    /\ ConnOf(A1).stats.last_bytes_received > 100 * MTU
    /\ ConnOf(A1).stats.error_points = 0

\* an uplink that has delivered about 1 Mbit/s since its creation has just
\* been scored for the first time, as a link without bandwidth
C33_FirstScore ==
    /\ rx.kind = "tick"
    /\ IsMember(A1)
    /\ ConnOf(A1).connection_start = QualT0s - 12
    /\ ConnOf(A1).stats.last_eval_time = QualT0
    /\ now_ms = QualT0 + EPOLL_TIMEOUT
    /\ ConnOf(A1).stats.last_bytes_received > 100 * MTU
    /\ ConnOf(A1).stats.error_points = 40

---------------------------------------------------------------------------
(* Sender telemetry: an uplink past its grace period reports its RTT and   *)
(* its window in extended keepalives; no uplink carries data.               *)

RttT0 == T0 + 60000
RttT0s == RttT0 \div 1000
MaxRttRun == 7000
MaxRttKeepalives == 2

\* the values of the RTT field, around the thresholds
RttValues == {0, 100, 101, 200, 201, 500, 501}

\* <<window, in_flight>>
RttWindows == {<<0, 0>>, <<100, 99>>}

\* two uplinks that registered 15 s ago and were heard a moment ago; the
\* last evaluation was 5 s ago, during their grace period
RttStart ==
    << [NewGroup(CID1, RttT0s - 15, RND1) EXCEPT
          !.conns = << [NewConnection(A1, RttT0s - 15) EXCEPT !.last_rcvd = RttT0s],
                       [NewConnection(A2, RttT0s - 15) EXCEPT !.last_rcvd = RttT0s] >>,
          !.last_addr = A2,
          !.last_quality_eval = RttT0s - 5,
          !.last_load_balance_eval = RttT0s - 5] >>

InitRtt ==
    /\ groups = RttStart
    /\ now_ms = RttT0
    /\ ts = RttT0s
    /\ last_run = RttT0s - 1
    /\ rx = NoRx
    /\ tx = <<>>

\* A1 sends at most one extended keepalive a second; A2 stays silent
NextRtt ==
    \/ \E rtt \in RttValues, w \in RttWindows :
          /\ IsMember(A1)
          /\ ConnOf(A1).stats.last_keepalive < ts
          /\ ConnOf(A1).stats.rtt_history_idx < MaxRttKeepalives
          /\ RecvPacket(A1, GoodKeepalive(w[1], w[2], rtt, 0), TRUE, TRUE, TRUE)
    \/ /\ now_ms + EPOLL_TIMEOUT <= RttT0 + MaxRttRun
       /\ ReactorTick(EPOLL_TIMEOUT)

SpecRtt == InitRtt /\ [][NextRtt]_vars

---------------------------------------------------------------------------
(* The RTT penalty *)

\* the error points of the connection at addr of the group id after the step
PointsAfter(id, addr) ==
    CHOOSE p \in 0..200 :
        \E j \in 1..Len(groups'), e \in 1..MAX_CONNS_PER_GROUP :
            /\ groups'[j].id = id
            /\ e <= Len(groups'[j].conns)
            /\ groups'[j].conns[e].addr = addr
            /\ groups'[j].conns[e].stats.error_points = p

\* the telemetry of the connection is fresh at the evaluation of the step
\* and has an RTT or a window
FreshTelemetry(conn) ==
    /\ conn.stats.last_keepalive # 0
    /\ ts - conn.stats.last_keepalive <= KEEPALIVE_STALENESS_THRESHOLD
    /\ (conn.stats.rtt_ms > 0 \/ conn.stats.window > 0)

\* what a scored connection gets aside from the RTT tiers when it has
\* carried no data since its snapshot: 40 points for its bandwidth and, with
\* fresh telemetry, the jitter and the window penalty
PointsAsideRtt(conn) ==
    40 + (IF FreshTelemetry(conn)
          THEN (IF rtt_jitter_high(conn.stats) THEN 10 ELSE 0)
               + calculate_window_error_points(conn.stats)
          ELSE 0)

RttTiersMicroseconds(rtt) ==
    IF rtt > 500000 THEN 20 ELSE IF rtt > 200000 THEN 10 ELSE IF rtt > 100000 THEN 5 ELSE 0

RttTiersMilliseconds(rtt) ==
    IF rtt > 500 THEN 20 ELSE IF rtt > 200 THEN 10 ELSE IF rtt > 100 THEN 5 ELSE 0

C34_StaleTelemetry ==
    /\ rx.kind = "tick"
    /\ IsMember(A1)
    /\ ConnOf(A1).stats.last_eval_time = now_ms - EPOLL_TIMEOUT
    /\ ConnOf(A1).stats.rtt_ms = 501
    /\ ConnOf(A1).stats.last_keepalive > 0
    /\ ConnOf(A1).stats.last_keepalive < ts - 1 - KEEPALIVE_STALENESS_THRESHOLD
    /\ ConnOf(A1).stats.error_points = 40

---------------------------------------------------------------------------
(* Keepalives among data: A1 carries data and sends keepalives, A2 sends   *)
(* keepalives only, A3 is silent.                                           *)

MaxKeepRun == 6000
KeepGaps == {1000, 3000}

\* what A1 and A2 send
KeepTraffic ==
    { <<A1, SrtDataPkt(501, <<7>>)>>,
      <<A1, KeepalivePkt>>,
      <<A2, KeepalivePkt>>,
      <<A2, GoodKeepalive(100, 20, 150, 0)>> }

InitKeep ==
    /\ groups = BatchGroups
    /\ now_ms = T0
    /\ ts = T0s
    /\ last_run = T0s
    /\ rx = NoRx
    /\ tx = <<>>

NextKeep ==
    \E d \in KeepGaps, x \in KeepTraffic :
        /\ now_ms + d <= T0 + MaxKeepRun
        /\ ReactorRecv(d, x[1], x[2], NoEnv)

SpecKeep == InitKeep /\ [][NextKeep]_vars

\* the step handles a keepalive of a registered connection
KeepaliveStep ==
    /\ rx'.kind = "srtla"
    /\ is_srtla_keepalive(rx'.buf, rx'.n)
    /\ find_by_address(groups', rx'.addr).c # 0

\* the group and the connection of the sender before and after the step
KeepaliveLeft(before, after) ==
    /\ before.c # 0
    /\ LET g     == groups[before.g]
           conn  == g.conns[before.c]
           g2    == groups'[after.g]
           conn2 == g2.conns[after.c]
       IN  /\ g2.id = g.id
           /\ conn2.last_rcvd = ts'
           /\ ~conn_timed_out(conn2, ts')
           /\ g2.last_addr = g.last_addr
           /\ conn2.stats.bytes_received = conn.stats.bytes_received
           /\ conn2.stats.packets_received = conn.stats.packets_received
           /\ conn2.stats.packets_lost = conn.stats.packets_lost
           /\ conn2.recv_log = conn.recv_log
           /\ conn2.recv_idx = conn.recv_idx
           /\ g2.srt_sock = g.srt_sock

\* C35: a keepalive from a registered connection refreshes the connection's
\* last_rcvd, so that it is not timed out, and leaves the group's
\* last_address, the bytes, packets and loss counters, recv_log and recv_idx
\* as they were; it creates no SRT socket and nothing is sent to the SRT
\* server.
C35_KeepaliveOnlyRefreshes ==
    [][ KeepaliveStep =>
          /\ KeepaliveLeft(find_by_address(groups, rx'.addr),
                           find_by_address(groups', rx'.addr))
          /\ \A k \in 1..Len(tx') : tx'[k].sock = SRTLA_SOCK
      ]_vars

\* A2, which has sent nothing but keepalives, is still registered after 6 s,
\* next to A1 whose data is the group's last address and has been counted
C35_Witness ==
    /\ rx.kind = "srtla" /\ is_srtla_keepalive(rx.buf, rx.n) /\ rx.addr = A2
    /\ now_ms = T0 + MaxKeepRun
    /\ IsMember(A2) /\ IsMember(A1)
    /\ ConnOf(A2).last_rcvd = ts
    /\ ConnOf(A2).stats.packets_received = 0
    /\ ConnOf(A1).stats.packets_received >= 2
    /\ groups[1].last_addr = A1
    /\ groups[1].srt_sock >= 0

---------------------------------------------------------------------------
(* The wait of register_connection, poll by poll.  rx.events is the queue   *)
(* of the SRTLA socket: the datagrams that have arrived and that recvfrom   *)
(* has not returned yet.  rx.kind = "waiting": process_packet is inside     *)
(* wait_group_by_id, for the REG2 in rx.buf, until rx.deadline.             *)

MaxWaitRun == 400
MaxQueue == 2
WaitPoll == 100

\* a thread of its own for every datagram
reactor_idle_always(r) == TRUE

\* main calls process_packet from its one loop: again only when the call
\* before has returned
reactor_idle(r) == r.kind # "waiting"

\* a REG2 for a group that a REG1 from A4 would create, the REG1, a REG2
\* for the group that is there, a keepalive
WaitTraffic ==
    { SrtlaEvent(A3, Reg2Pkt(CID2 \o RND1), NoEnv),
      SrtlaEvent(A4, Reg1Pkt(CID2), NoEnv),
      SrtlaEvent(A3, Reg2Pkt(CID1 \o RND1), NoEnv),
      SrtlaEvent(A1, KeepalivePkt, NoEnv) }

\* a datagram arrives at the SRTLA socket
Arrive(ev) ==
    /\ Len(rx.events) < MaxQueue
    /\ rx' = [rx EXCEPT !.events = Append(@, ev)]
    /\ UNCHANGED <<groups, now_ms, ts, last_run, tx>>

\* recvfrom returns the first datagram of the queue and process_packet
\* handles it: to its end, or up to the first yield of wait_group_by_id
Dequeue ==
    /\ reactor_idle(rx)
    /\ rx.events # <<>>
    /\ \E ev \in {Head(rx.events)}, t \in {now_ms \div 1000} :
          /\ ts' = t
          /\ UNCHANGED <<now_ms, last_run>>
          /\ IF /\ ~is_srtla_reg1(ev.buf, ev.n)
                /\ is_srtla_reg2(ev.buf, ev.n)
                /\ find_group_by_id(groups, SubSeq(ev.buf, 3, 2 + SRTLA_ID_LEN)) = 0
             THEN /\ rx' = [NoRx EXCEPT !.kind = "waiting", !.addr = ev.addr,
                                        !.buf = ev.buf, !.n = ev.n,
                                        !.events = Tail(rx.events),
                                        !.deadline = now_ms + WAIT_GROUP_MS]
                  /\ tx' = <<>>
                  /\ UNCHANGED groups
             ELSE \E r \in {process_packet(groups, ev.addr, ev.buf, ev.n, t, now_ms, ev.env)} :
                  /\ groups' = r.groups
                  /\ tx' = r.tx
                  /\ rx' = [NoRx EXCEPT !.kind = "srtla", !.addr = ev.addr,
                                        !.buf = ev.buf, !.n = ev.n, !.err = r.err,
                                        !.events = Tail(rx.events)]

\* wait_group_by_id: the yield returns after d ms; before the deadline the
\* registry is searched again, after it the wait is over and
\* register_connection answers REG_NGP
Poll(d) ==
    /\ rx.kind = "waiting"
    /\ now_ms + d <= T0 + MaxWaitRun
    /\ now_ms' = now_ms + d
    /\ UNCHANGED <<ts, last_run>>
    /\ IF now_ms + d < rx.deadline
       THEN IF find_group_by_id(groups, SubSeq(rx.buf, 3, 2 + SRTLA_ID_LEN)) = 0
            THEN UNCHANGED <<groups, tx, rx>>
            ELSE \E r \in {register_connection(groups, rx.addr, rx.buf, ts, TRUE)} :
                 /\ groups' = r.groups
                 /\ tx' = r.tx
                 /\ rx' = [rx EXCEPT !.kind = "srtla", !.deadline = 0]
       ELSE \E r \in {reg_reject(groups, rx.addr, SRTLA_TYPE_REG_NGP, TRUE)} :
            /\ groups' = r.groups
            /\ tx' = r.tx
            /\ rx' = [rx EXCEPT !.kind = "srtla", !.deadline = 0]

InitWait ==
    /\ groups = TwoUplinks
    /\ now_ms = T0
    /\ ts = T0s
    /\ last_run = T0s
    /\ rx = NoRx
    /\ tx = <<>>

NextWait ==
    \/ \E ev \in WaitTraffic : Arrive(ev)
    \/ Dequeue
    \/ Poll(WaitPoll)

SpecWait == InitWait /\ [][NextWait]_vars

\* the answer REG_NGP to the REG2 that has been waited for
NgpAnswer == <<SendTo(SRTLA_SOCK, rx.addr, BE16(SRTLA_TYPE_REG_NGP), TRUE)>>

\* C36: no other datagram is processed while register_connection waits for
\* the group id: the registry is unchanged throughout the wait, so the
\* outcome of a REG2 is determined by the registry at the moment it is
\* dequeued: a REG2 whose id is there is answered at once, one whose id is
\* not there waits and is answered REG_NGP, whatever arrives in between; a
\* REG1 dequeued after it cannot turn its REG_NGP into REG3.
C36_WaitSeesNoChange ==
    [][ /\ rx.kind = "waiting" =>
              /\ groups' = groups
              /\ find_group_by_id(groups, SubSeq(rx.buf, 3, 2 + SRTLA_ID_LEN)) = 0
              /\ rx'.kind = "waiting" => (rx'.buf = rx.buf /\ rx'.addr = rx.addr)
              /\ rx'.kind # "waiting" =>
                    /\ rx'.buf = rx.buf /\ rx'.addr = rx.addr
                    /\ now_ms' >= rx.deadline
                    /\ tx' = NgpAnswer
        /\ (/\ rx.kind # "waiting" /\ Len(rx'.events) < Len(rx.events)
            /\ rx'.kind = "srtla" /\ is_srtla_reg2(rx'.buf, rx'.n)) =>
              find_group_by_id(groups, SubSeq(rx'.buf, 3, 2 + SRTLA_ID_LEN)) # 0
      ]_vars

\* a REG2 has waited 200 ms and has been answered REG_NGP while the REG1
\* that creates its group was in the queue
C36_Witness ==
    /\ rx.kind = "srtla"
    /\ rx.buf = Reg2Pkt(CID2 \o RND1)
    /\ now_ms = T0 + WAIT_GROUP_MS
    /\ tx = NgpAnswer
    /\ rx.events # <<>>
    /\ Head(rx.events) = SrtlaEvent(A4, Reg1Pkt(CID2), NoEnv)
    /\ find_group_by_id(groups, CID2 \o RND1) = 0

\* the same REG2 has been answered at once, the REG1 having been dequeued
\* before it
C36_Reg1First ==
    /\ rx.kind = "srtla"
    /\ rx.buf = Reg2Pkt(CID2 \o RND1)
    /\ now_ms = T0
    /\ find_group_by_id(groups, CID2 \o RND1) # 0
    /\ Len(groups[find_group_by_id(groups, CID2 \o RND1)].conns) = 1

---------------------------------------------------------------------------
(* The throttle depends on the connection's own weight only *)

ThrottleSteps == {Rat(20, 100), Rat(40, 100), Rat(55, 100), Rat(70, 100), Rat(85, 100), One}

\* the pass has computed the throttles of the group: the balancing is
\* enabled and two connections or more are not timed out
OwnWeightThrottles(group, current_time) ==
    LET active     == NotTimedOut(group, current_time)
        max_weight == Max({0} \cup {group.conns[c].stats.weight_percent : c \in active})
    IN  (group.load_balancing_enabled /\ Cardinality(active) >= 2) =>
            /\ \A c \in 1..Len(group.conns) :
                  LET s == group.conns[c].stats
                  IN  /\ max_weight > 0
                      /\ ~RLess(Rat(s.weight_percent, max_weight), Rat(s.weight_percent, 100))
                      /\ s.ack_throttle_factor = RMax(Rat(2, 10), Rat(s.weight_percent, 100))
                      /\ s.ack_throttle_factor \in ThrottleSteps
            /\ (\E w \in 1..99 : \A c \in 1..Len(group.conns) :
                                     group.conns[c].stats.weight_percent = w)
                  => \A c \in 1..Len(group.conns) :
                        RLess(group.conns[c].stats.ack_throttle_factor, One)

\* C37: whenever the load balancer computes throttles (enabled, at least two
\* active connections), weight/max_weight is never smaller than weight/100,
\* the stored throttle is max(MIN_ACK_RATE, weight/100), a function of the
\* connection's own weight, and one of 0.2, 0.4, 0.55, 0.7, 0.85, 1.0; a
\* group whose connections all have the same weight below 100 has all of
\* them throttled below 1.0.
C37_ThrottleFromOwnWeight ==
    [][ \A i \in 1..Len(groups), j \in 1..Len(groups') :
          (/\ groups[i].id = groups'[j].id
           /\ groups'[j].last_load_balance_eval # groups[i].last_load_balance_eval)
          => OwnWeightThrottles(groups'[j], ts)
      ]_vars

\* the pass has just throttled four active uplinks of weight 10 to 0.2 each
C37_Witness ==
    /\ rx.kind = "tick"
    /\ Len(groups) = 1 /\ Len(groups[1].conns) = 4
    /\ groups[1].last_load_balance_eval = ts - 1
    /\ Cardinality(NotTimedOut(groups[1], ts - 1)) = 4
    /\ \A c \in 1..4 : Shares(groups[1])[c] = <<WEIGHT_CRITICAL, MIN_ACK_RATE>>

\* the pass has just left three uplinks of full weight unthrottled and has
\* throttled the fourth
C37_MixedWeights ==
    /\ rx.kind = "tick"
    /\ Len(groups) = 1 /\ Len(groups[1].conns) = 4
    /\ groups[1].last_load_balance_eval = ts - 1
    /\ Cardinality(NotTimedOut(groups[1], ts - 1)) = 4
    /\ \A c \in 1..3 : Shares(groups[1])[c] = <<WEIGHT_FULL, One>>
    /\ Shares(groups[1])[4][1] < WEIGHT_FULL
    /\ RLess(Shares(groups[1])[4][2], One)

---------------------------------------------------------------------------
(* A recovery that fails *)

Registered(gs, addr) == \E j \in 1..Len(gs) : ConnIndex(gs[j].conns, addr) # 0

\* C38: whenever a cleanup run takes the recovery-failed branch for a
\* connection (nothing received after recovery_start and recovery_start +
\* RECOVERY_CHANCE_PERIOD < current_time), the connection is also timed out
\* and the same run removes it: no connection is in the registry after its
\* recovery has failed.
C38_FailedRecoveryRemoved ==
    [][ CleanupRan =>
          /\ \A i \in 1..Len(groups), c \in 1..MAX_CONNS_PER_GROUP :
                (c <= Len(groups[i].conns) /\ recovery_failed(groups[i].conns[c], ts))
                => /\ groups[i].conns[c].addr \in Range(rx'.failed)
                   /\ conn_timed_out(groups[i].conns[c], ts)
          /\ \A a \in Range(rx'.failed) : ~Registered(groups', a)
      ]_vars

\* the cleanup has just logged that the recovery of A1 has failed and has
\* removed A1; A2 is still there
C38_Witness ==
    /\ rx.kind = "tick"
    /\ last_run = ts - 1
    /\ A1 \in Range(rx.failed)
    /\ ~Registered(groups, A1)
    /\ Registered(groups, A2)

\* the cleanup has just removed A1 without logging a failed recovery, while
\* A2 is recovering
C38_RemovedWhileRecovering ==
    /\ rx.kind = "tick"
    /\ last_run = ts - 1
    /\ rx.failed = <<>>
    /\ ~Registered(groups, A1)
    /\ Registered(groups, A2)
    /\ ConnOf(A2).recovery_start > 0

---------------------------------------------------------------------------
(* Silence: datagrams arrive during the first seconds, then no more; the   *)
(* reactor goes on, epoll_wait returning every EPOLL_TIMEOUT ms.            *)

MaxIdleTraffic == 2000
MaxIdleRun == 12000

TrafficOver == now_ms >= T0 + MaxIdleTraffic

\* keepalives of A1 and A3, a REG1 of A4, an ACK or a failed read on the
\* SRT socket of a group
IdleTraffic ==
    /\ ~TrafficOver
    /\ \/ \E a \in {A1, A3} : RecvPacket(a, KeepalivePkt, TRUE, TRUE, TRUE)
       \/ RecvReg1(A4, CID2, RND2, TRUE)
       \/ \E i \in 1..Len(groups) :
             SrtReadable(i, SrtControlPkt(SRT_TYPE_ACK, BE32(9)), 20)
       \/ \E i \in 1..Len(groups) : SrtReadable(i, <<>>, -1)

\* epoll_wait returns without an event
IdleTick ==
    /\ now_ms + EPOLL_TIMEOUT <= T0 + MaxIdleRun
    /\ ReactorTick(EPOLL_TIMEOUT)

InitIdle ==
    /\ groups = BatchGroups
    /\ now_ms = T0
    /\ ts = T0s
    /\ last_run = T0s
    /\ rx = NoRx
    /\ tx = <<>>

NextIdle == IdleTraffic \/ IdleTick

SpecIdle == InitIdle /\ [][NextIdle]_vars

\* the clock advances and the reactor keeps iterating: epoll_wait returns
\* after its timeout at the latest, and the steps in which the clock moves
\* on by EPOLL_TIMEOUT are those of IdleTick
IdleClock ==
    /\ now_ms + EPOLL_TIMEOUT <= T0 + MaxIdleRun
    /\ now_ms' = now_ms + EPOLL_TIMEOUT

FairIdle == SpecIdle /\ WF_now_ms(IdleClock)

\* C39: with the clock advancing and the reactor iterating, once no further
\* datagram is received every connection is eventually removed from its
\* group and every group from the registry: the registry becomes empty.
C39_RegistryEmpties == TrafficOver ~> (groups = <<>>)

\* the cleanup has just emptied the registry, 5 s or more after the last
\* datagram
C39_Witness ==
    /\ rx.kind = "tick"
    /\ groups = <<>>
    /\ last_run = ts - 1
    /\ now_ms >= T0 + MaxIdleTraffic + (CONN_TIMEOUT * 1000)
    /\ now_ms <= T0 + MaxIdleTraffic + ((CONN_TIMEOUT + CLEANUP_PERIOD + 1) * 1000)

---------------------------------------------------------------------------
(* A recovery from its start to its end: an uplink that has been silent    *)
(* for 5 s may speak again during the first seconds, and then goes on       *)
(* sending keepalives or not; the reactor goes on.                          *)

MaxRecEntry == 2000
MaxRecRun == 12000

\* one uplink, registered 10 s ago and last heard 5 s ago
SilentUplink ==
    << [NewGroup(CID1, T0s - 10, RND1) EXCEPT
          !.conns = << [NewConnection(A1, T0s - 10) EXCEPT !.last_rcvd = T0s - 5] >>,
          !.last_addr = A1] >>

\* a datagram of A1 now would start a recovery
WouldStartRecovery ==
    /\ ConnOf(A1).recovery_start = 0
    /\ (ConnOf(A1).last_rcvd + CONN_TIMEOUT) < ts

\* a keepalive of A1; the recoveries start during the first seconds
RecTraffic ==
    /\ IsMember(A1)
    /\ WouldStartRecovery => now_ms <= T0 + MaxRecEntry
    /\ RecvPacket(A1, KeepalivePkt, TRUE, TRUE, TRUE)

\* epoll_wait returns without an event
RecTick ==
    /\ now_ms + EPOLL_TIMEOUT <= T0 + MaxRecRun
    /\ ReactorTick(EPOLL_TIMEOUT)

InitRec ==
    /\ groups = SilentUplink
    /\ now_ms = T0
    /\ ts = T0s
    /\ last_run \in {T0s - 2, T0s - 1}
    /\ rx = NoRx
    /\ tx = <<>>

NextRec == RecTraffic \/ RecTick

SpecRec == InitRec /\ [][NextRec]_vars

\* the clock advances and the reactor keeps iterating: epoll_wait returns
\* after its timeout at the latest, and the steps in which the clock moves
\* on by EPOLL_TIMEOUT are those of RecTick
RecClock ==
    /\ now_ms + EPOLL_TIMEOUT <= T0 + MaxRecRun
    /\ now_ms' = now_ms + EPOLL_TIMEOUT

FairRec == SpecRec /\ WF_now_ms(RecClock)

\* the connection at addr is registered and in recovery
Recovering(addr) ==
    \E j \in 1..Len(groups), c \in 1..MAX_CONNS_PER_GROUP :
        /\ c <= Len(groups[j].conns)
        /\ groups[j].conns[c].addr = addr
        /\ groups[j].conns[c].recovery_start > 0

\* C40: with the clock advancing and the reactor iterating, a connection
\* with recovery_start > 0 eventually has recovery_start reset to 0 or is
\* removed from the registry, whatever it receives or does not receive
\* afterwards.
C40_RecoveryEnds == Recovering(A1) ~> ~Recovering(A1)

\* the cleanup has just ended the recovery that A1 started in the first
\* seconds: A1 has gone on sending keepalives and is kept
C40_Witness ==
    /\ rx.kind = "tick"
    /\ A1 \in Range(rx.recovered)
    /\ Registered(groups, A1)
    /\ ~Recovering(A1)
    /\ now_ms <= T0 + MaxRecEntry + ((RECOVERY_CHANCE_PERIOD + CLEANUP_PERIOD + 1) * 1000)

\* the cleanup has just removed A1, whose recovery has failed
C40_Failed ==
    /\ rx.kind = "tick"
    /\ A1 \in Range(rx.failed)
    /\ groups = <<>>
    /\ now_ms > T0 + MaxRecEntry

=============================================================================
